---- MODULE Spec2Model ----
(***************************************************************************)
(* Model of the best-track parser of noaa-data-visualizer.                 *)
(*                                                                         *)
(* Two revisions of the parser are in the repository and both are          *)
(* modelled: rev = 1 is src/utils/parser.ts, rev = 2 is the later          *)
(* src/unnamed/part_006 (the one that merges wind radii).                  *)
(*                                                                         *)
(* Strings are sequences of one-character strings, so that length,         *)
(* substring, trim, parseInt and the regular expressions of the source     *)
(* are computed, not assumed.  A line of text is the sequence of its       *)
(* comma-separated pieces (String.split(',') is a bijection between a      *)
(* string and the non-empty sequence of its comma-free pieces), and a      *)
(* text is the sequence of its lines.  A JavaScript number that may be     *)
(* NaN is <<>> (NaN) or <<n>>.                                             *)
(*                                                                         *)
(* The App (src/App.tsx) is modelled where it handles the parse results:   *)
(* the import handler and the load at mount.                               *)
(***************************************************************************)
EXTENDS Integers, Sequences, FiniteSets, TLC

(***************************************************************************)
(* Characters and strings                                                  *)
(***************************************************************************)
Digits == <<"0", "1", "2", "3", "4", "5", "6", "7", "8", "9">>

UpperLetters == <<"A", "B", "C", "D", "E", "F", "G", "H", "I", "J", "K", "L", "M",
                  "N", "O", "P", "Q", "R", "S", "T", "U", "V", "W", "X", "Y", "Z">>

LowerLetters == <<"a", "b", "c", "d", "e", "f", "g", "h", "i", "j", "k", "l", "m",
                  "n", "o", "p", "q", "r", "s", "t", "u", "v", "w", "x", "y", "z">>

Range(s) == {s[k] : k \in DOMAIN s}

IndexOf(c, s) == CHOOSE k \in DOMAIN s : s[k] = c

IsDigit(c) == c \in Range(Digits)

IsUpper(c) == c \in Range(UpperLetters)

IsLetter(c) == c \in Range(UpperLetters) \cup Range(LowerLetters)

IsSpace(c) == c \in {" ", "\t", "\r", "\n"}

DigitVal(c) == IndexOf(c, Digits) - 1

\* The value undefined: what indexing an array past its end gives.
Undefined == <<"undefined">>

\* JavaScript truthiness of a string-or-undefined value.
Truthy(s) == s # Undefined /\ s # <<>>

\* parts[k], 0-based as in the source.
At(parts, k) == IF k + 1 \in DOMAIN parts THEN parts[k + 1] ELSE Undefined

\* String.prototype.substring(a, b) for 0 <= a <= b, clamped to the length.
Substring(s, a, b) ==
  LET hi == IF b > Len(s) THEN Len(s) ELSE b
      lo == IF a > hi THEN hi ELSE a
  IN  SubSeq(s, lo + 1, hi)

RECURSIVE TrimStart(_)
TrimStart(s) ==
  IF s # <<>> /\ IsSpace(Head(s)) THEN TrimStart(Tail(s)) ELSE s

RECURSIVE TrimEnd(_)
TrimEnd(s) ==
  IF s # <<>> /\ IsSpace(s[Len(s)]) THEN TrimEnd(SubSeq(s, 1, Len(s) - 1)) ELSE s

\* String.prototype.trim
Trim(s) == TrimEnd(TrimStart(s))

ToUpperChar(c) ==
  IF c \in Range(LowerLetters) THEN UpperLetters[IndexOf(c, LowerLetters)] ELSE c

\* String.prototype.toUpperCase
ToUpperCase(s) == [k \in DOMAIN s |-> ToUpperChar(s[k])]

StartsWith(s, p) == Len(s) >= Len(p) /\ SubSeq(s, 1, Len(p)) = p

Includes(s, c) == c \in Range(s)

(***************************************************************************)
(* Numbers                                                                 *)
(***************************************************************************)
NaN == <<>>

Num(n) == <<n>>

IsNaN(x) == x = NaN

\* The longest prefix of s made of digits.
RECURSIVE DigitPrefix(_)
DigitPrefix(s) ==
  IF s # <<>> /\ IsDigit(Head(s)) THEN <<Head(s)>> \o DigitPrefix(Tail(s)) ELSE <<>>

RECURSIVE DigitsValue(_)
DigitsValue(ds) ==
  IF ds = <<>> THEN 0
  ELSE 10 * DigitsValue(SubSeq(ds, 1, Len(ds) - 1)) + DigitVal(ds[Len(ds)])

\* A string starts with a minus sign.
IsNegative(t) == t # <<>> /\ Head(t) = "-"

\* A string without its sign.
Unsigned(t) == IF t # <<>> /\ Head(t) \in {"-", "+"} THEN Tail(t) ELSE t

\* The integer of a run of digits and a sign; NaN when the run is empty.
IntOfDigits(ds, neg) ==
  IF ds = <<>> THEN NaN
  ELSE Num(IF neg THEN 0 - DigitsValue(ds) ELSE DigitsValue(ds))

\* parseInt on a string without leading white space
ParseIntFrom(t) == IntOfDigits(DigitPrefix(Unsigned(t)), IsNegative(t))

\* parseInt(s, 10): leading white space, an optional sign, then the longest
\* run of digits; NaN when there is no digit there (undefined included).
parseInt(s) == IF s = Undefined THEN NaN ELSE ParseIntFrom(TrimStart(s))

\* v || 0
NumOrZero(v) == IF IsNaN(v) THEN 0 ELSE v[1]

\* parseInt(s, 10) || 0
IntOrZero(s) == NumOrZero(parseInt(s))

RECURSIVE NatToString(_)
NatToString(n) ==
  IF n < 10 THEN <<Digits[n + 1]>>
  ELSE NatToString(n \div 10) \o <<Digits[(n % 10) + 1]>>

\* Number.prototype.toString / template-literal conversion of an integer or NaN.
NumToString(x) ==
  IF IsNaN(x) THEN <<"N", "a", "N">>
  ELSE IF x[1] < 0 THEN <<"-">> \o NatToString(0 - x[1]) ELSE NatToString(x[1])

\* String.prototype.padStart(2, '0')
PadStart2(s) == IF Len(s) < 2 THEN [k \in 1..(2 - Len(s)) |-> "0"] \o s ELSE s

(***************************************************************************)
(* parseCoordinate, parseDate, isGenericName                               *)
(***************************************************************************)
\* The digits after the decimal point, when the rest starts with one.
FractionDigits(rest) ==
  IF rest # <<>> /\ Head(rest) = "." THEN DigitPrefix(Tail(rest)) ELSE <<>>

\* The value, in tenths, of an integer part ip and a fraction part fp; NaN
\* when neither is there.  The digits after the first decimal are dropped:
\* the model's resolution is a tenth of a degree.
TenthsOf(ip, fp, neg) ==
  IF ip = <<>> /\ fp = <<>> THEN NaN
  ELSE IF neg
       THEN Num(0 - (10 * DigitsValue(ip) + (IF fp = <<>> THEN 0 ELSE DigitVal(fp[1]))))
       ELSE Num(10 * DigitsValue(ip) + (IF fp = <<>> THEN 0 ELSE DigitVal(fp[1])))

FloatOfParts(body, ip, neg) ==
  TenthsOf(ip, FractionDigits(SubSeq(body, Len(ip) + 1, Len(body))), neg)

FloatOfBody(body, neg) == FloatOfParts(body, DigitPrefix(body), neg)

FloatFrom(t) == FloatOfBody(Unsigned(t), IsNegative(t))

\* parseFloat(s), in tenths: leading white space, an optional sign, digits,
\* an optional point and digits.  Exponents are not modelled.
parseFloatTenths(s) == FloatFrom(TrimStart(s))

\* The signed value of a parsed coordinate: NaN gives 0, S and W negate.
SignedCoordinate(value, direction) ==
  IF IsNaN(value) THEN 0
  ELSE IF direction \in {"S", "W"} THEN 0 - value[1]
  ELSE value[1]

\* value = parseFloat(numPart); if (!numPart.includes('.')) value = value / 10.
\* A prefix without a decimal point is a whole number v, and v / 10 degrees is
\* v tenths.
DirectedValue(f, numPart) ==
  IF IsNaN(f) THEN NaN
  ELSE IF ~Includes(numPart, ".") THEN Num(f[1] \div 10)
  ELSE f

CoordinateWithDirection(numPart, lastChar) ==
  SignedCoordinate(DirectedValue(parseFloatTenths(numPart), numPart), lastChar)

CoordinateOfClean(clean, lastChar) ==
  IF lastChar \in {"N", "S", "E", "W"}
  THEN CoordinateWithDirection(SubSeq(clean, 1, Len(clean) - 1), lastChar)
  ELSE SignedCoordinate(parseFloatTenths(clean), "")

CoordinateOfTrimmed(clean) ==
  IF clean = <<>> THEN 0 ELSE CoordinateOfClean(clean, ToUpperChar(clean[Len(clean)]))

\* parseCoordinate(coord), in tenths of a degree.
parseCoordinate(coord) ==
  IF ~Truthy(coord) THEN 0 ELSE CoordinateOfTrimmed(Trim(coord))

\* The timestamp and the display date of year, month, day, hour and minute.
DateRecord(y, m, d, h, min) ==
  [iso       |-> y \o <<"-">> \o m \o <<"-">> \o d \o <<"T">> \o h \o <<":">>
                   \o min \o <<":", "0", "0", ".", "0", "0", "0", "Z">>,
   formatted |-> y \o <<"-">> \o m \o <<"-">> \o d]

\* timeStr && timeStr.length >= 4
HasHourMinute(timeStr) == Truthy(timeStr) /\ Len(timeStr) >= 4

\* parseDate(dateStr, timeStr): the timestamp (iso) and the display date.
parseDate(dateStr, timeStr) ==
  IF ~Truthy(dateStr) \/ Len(dateStr) < 8 THEN [iso |-> <<>>, formatted |-> dateStr]
  ELSE DateRecord(Substring(dateStr, 0, 4), Substring(dateStr, 4, 6),
                  Substring(dateStr, 6, 8),
                  IF HasHourMinute(timeStr) THEN Substring(timeStr, 0, 2) ELSE <<"0", "0">>,
                  IF HasHourMinute(timeStr) THEN Substring(timeStr, 2, 4) ELSE <<"0", "0">>)

s_UNNAMED == <<"U", "N", "N", "A", "M", "E", "D">>

s_INVEST == <<"I", "N", "V", "E", "S", "T">>

s_GENESIS == <<"G", "E", "N", "E", "S", "I", "S">>

s_SUBTROP == <<"S", "U", "B", "T", "R", "O", "P">>

s_TC == <<"T", "C">>

s_TWO == <<"T", "W", "O">>

s_LOW == <<"L", "O", "W">>

s_BEST == <<"B", "E", "S", "T">>

s_NONAME == <<"N", "O", "N", "A", "M", "E">>

s_STORM == <<"S", "T", "O", "R", "M">>

NumberWords ==
  {<<"O", "N", "E">>,
   <<"T", "W", "O">>,
   <<"T", "H", "R", "E", "E">>,
   <<"F", "O", "U", "R">>,
   <<"F", "I", "V", "E">>,
   <<"S", "I", "X">>,
   <<"S", "E", "V", "E", "N">>,
   <<"E", "I", "G", "H", "T">>,
   <<"N", "I", "N", "E">>,
   <<"T", "E", "N">>,
   <<"E", "L", "E", "V", "E", "N">>,
   <<"T", "W", "E", "L", "V", "E">>,
   <<"T", "H", "I", "R", "T", "E", "E", "N">>,
   <<"F", "O", "U", "R", "T", "E", "E", "N">>,
   <<"F", "I", "F", "T", "E", "E", "N">>,
   <<"S", "I", "X", "T", "E", "E", "N">>,
   <<"S", "E", "V", "E", "N", "T", "E", "E", "N">>,
   <<"E", "I", "G", "H", "T", "E", "E", "N">>,
   <<"N", "I", "N", "E", "T", "E", "E", "N">>,
   <<"T", "W", "E", "N", "T", "Y">>}

AllDigits(r) == r # <<>> /\ \A k \in DOMAIN r : IsDigit(r[k])

\* /^storm\s*\d+$/i on an upper-cased string
MatchesStormDigits(n) ==
  StartsWith(n, s_STORM) /\ AllDigits(TrimStart(SubSeq(n, 6, Len(n))))

\* isGenericName on the upper-cased, trimmed name
IsGenericToken(n) ==
  \/ n = <<>>
  \/ n = s_UNNAMED
  \/ StartsWith(n, s_INVEST)
  \/ StartsWith(n, s_GENESIS)
  \/ StartsWith(n, s_SUBTROP)
  \/ n = s_TC
  \/ n = s_TWO
  \/ n = s_LOW
  \/ n = s_BEST
  \/ n = s_NONAME
  \/ n \in NumberWords
  \/ MatchesStormDigits(n)

isGenericName(name) == IsGenericToken(Trim(ToUpperCase(name)))

(***************************************************************************)
(* Ordering of timestamps and the sort                                     *)
(***************************************************************************)
\* String.prototype.localeCompare on the characters a timestamp is made of:
\* punctuation before digits before letters, compared position by position,
\* a proper prefix first.  (Lower-case letters, which differ from upper-case
\* ones only at a lower collation level, do not occur in the model's dates.)
CollationOrder == <<" ", "-", ":", ".">> \o Digits \o UpperLetters

CompareRanks(ra, rb, rest) == IF ra < rb THEN -1 ELSE IF ra > rb THEN 1 ELSE rest

RECURSIVE localeCompare(_, _)
localeCompare(a, b) ==
  IF a = <<>> THEN (IF b = <<>> THEN 0 ELSE -1)
  ELSE IF b = <<>> THEN 1
  ELSE CompareRanks(IndexOf(Head(a), CollationOrder), IndexOf(Head(b), CollationOrder),
                    localeCompare(Tail(a), Tail(b)))

\* A variant of the insertion that puts an observation before those of its
\* own timestamp: a sort that is not stable.
RECURSIVE InsertBeforeEqual(_, _)
InsertBeforeEqual(sorted, p) ==
  IF sorted = <<>> THEN <<p>>
  ELSE IF localeCompare(sorted[Len(sorted)].datetime, p.datetime) < 0
       THEN Append(sorted, p)
       ELSE Append(InsertBeforeEqual(SubSeq(sorted, 1, Len(sorted) - 1), p),
                   sorted[Len(sorted)])

\* One insertion of a stable sort: p goes after every element that is not
\* greater than it.
RECURSIVE InsertByDatetime(_, _)
InsertByDatetime(sorted, p) ==
  IF sorted = <<>> THEN <<p>>
  ELSE IF localeCompare(sorted[Len(sorted)].datetime, p.datetime) <= 0
       THEN Append(sorted, p)
       ELSE Append(InsertByDatetime(SubSeq(sorted, 1, Len(sorted) - 1), p),
                   sorted[Len(sorted)])

\* A variant that leaves the track in the order the rows were pushed.
TrackAsPushed(track) == track

\* track.sort((a, b) => a.datetime.localeCompare(b.datetime)); Array.prototype.sort
\* is stable.
RECURSIVE SortByDatetime(_)
SortByDatetime(track) ==
  IF track = <<>> THEN <<>>
  ELSE InsertByDatetime(SortByDatetime(SubSeq(track, 1, Len(track) - 1)),
                        track[Len(track)])

(***************************************************************************)
(* Input texts.  The lines the model draws its texts from: archive headers *)
(* and data rows, operational rows, and the empty line.                    *)
(***************************************************************************)
\* BEGIN LINE POOL
\* "AL092011, IRENE, 2\r"
Line_h1 ==
  << <<"A", "L", "0", "9", "2", "0", "1", "1">>, <<" ", "I", "R", "E", "N", "E">>,
     <<" ", "2", "\r">> >>

\* "AL092011, , 1"
Line_h2 ==
  << <<"A", "L", "0", "9", "2", "0", "1", "1">>, <<" ">>, <<" ", "1">> >>

\* "EP012012, ALETTA, 1"
Line_h3 ==
  << <<"E", "P", "0", "1", "2", "0", "1", "2">>, <<" ", "A", "L", "E", "T", "T", "A">>,
     <<" ", "1">> >>

\* "20110827, 1200, L, HU, 34.4N, 76.5W, 75, 952"
Line_r1 ==
  << <<"2", "0", "1", "1", "0", "8", "2", "7">>, <<" ", "1", "2", "0", "0">>, <<" ", "L">>,
     <<" ", "H", "U">>, <<" ", "3", "4", ".", "4", "N">>, <<" ", "7", "6", ".", "5", "W">>,
     <<" ", "7", "5">>, <<" ", "9", "5", "2">> >>

\* "20110826, 0600, , TS, 33.0N, 76.0W, XX, -999, 90, 60, 0, 0, 0, 0, 0, 0, 0, 0, 0, 0, 25"
Line_r2 ==
  << <<"2", "0", "1", "1", "0", "8", "2", "6">>, <<" ", "0", "6", "0", "0">>, <<" ">>,
     <<" ", "T", "S">>, <<" ", "3", "3", ".", "0", "N">>, <<" ", "7", "6", ".", "0", "W">>,
     <<" ", "X", "X">>, <<" ", "-", "9", "9", "9">>, <<" ", "9", "0">>, <<" ", "6", "0">>,
     <<" ", "0">>, <<" ", "0">>, <<" ", "0">>, <<" ", "0">>, <<" ", "0">>, <<" ", "0">>,
     <<" ", "0">>, <<" ", "0">>, <<" ", "0">>, <<" ", "0">>, <<" ", "2", "5">> >>

\* "20110827, 1200, , HU, 34.5N, 76.6W, 80, 950, 0, 0, 0, 0, 0, 0, 0, 0, 0, 0, 0, 0, 0"
Line_r3 ==
  << <<"2", "0", "1", "1", "0", "8", "2", "7">>, <<" ", "1", "2", "0", "0">>, <<" ">>,
     <<" ", "H", "U">>, <<" ", "3", "4", ".", "5", "N">>, <<" ", "7", "6", ".", "6", "W">>,
     <<" ", "8", "0">>, <<" ", "9", "5", "0">>, <<" ", "0">>, <<" ", "0">>, <<" ", "0">>,
     <<" ", "0">>, <<" ", "0">>, <<" ", "0">>, <<" ", "0">>, <<" ", "0">>, <<" ", "0">>,
     <<" ", "0">>, <<" ", "0">>, <<" ", "0">>, <<" ", "0">> >>

\* "20110828, 0000, , HU"
Line_r4 ==
  << <<"2", "0", "1", "1", "0", "8", "2", "8">>, <<" ", "0", "0", "0", "0">>, <<" ">>,
     <<" ", "H", "U">> >>

\* "2011, 00, , LO, 10.0N, 20.0W"
Line_r5 ==
  << <<"2", "0", "1", "1">>, <<" ", "0", "0">>, <<" ">>, <<" ", "L", "O">>,
     <<" ", "1", "0", ".", "0", "N">>, <<" ", "2", "0", ".", "0", "W">> >>

\* "AL, 09, 2011082712, , BEST, 0, 344N, 765W, 75, 952, HU, 34, NEQ, 150, 120, 100, 130, 1008, 200, 25, 0, 0, L, , , 0, 0, IRENE"
Line_o1 ==
  << <<"A", "L">>, <<" ", "0", "9">>, <<" ", "2", "0", "1", "1", "0", "8", "2", "7", "1", "2">>,
     <<" ">>, <<" ", "B", "E", "S", "T">>, <<" ", "0">>, <<" ", "3", "4", "4", "N">>,
     <<" ", "7", "6", "5", "W">>, <<" ", "7", "5">>, <<" ", "9", "5", "2">>, <<" ", "H", "U">>,
     <<" ", "3", "4">>, <<" ", "N", "E", "Q">>, <<" ", "1", "5", "0">>, <<" ", "1", "2", "0">>,
     <<" ", "1", "0", "0">>, <<" ", "1", "3", "0">>, <<" ", "1", "0", "0", "8">>,
     <<" ", "2", "0", "0">>, <<" ", "2", "5">>, <<" ", "0">>, <<" ", "0">>, <<" ", "L">>,
     <<" ">>, <<" ">>, <<" ", "0">>, <<" ", "0">>, <<" ", "I", "R", "E", "N", "E">> >>

\* "AL,  9, 2011082712, , BEST, 0, 345N, 766W, 80, 950, TS, 64, NEQ, 30, 25, 20, 28, 1008, 200, 0, 0, 0, L, KATIA, , 0, 0, INVEST"
Line_o2 ==
  << <<"A", "L">>, <<" ", " ", "9">>, <<" ", "2", "0", "1", "1", "0", "8", "2", "7", "1", "2">>,
     <<" ">>, <<" ", "B", "E", "S", "T">>, <<" ", "0">>, <<" ", "3", "4", "5", "N">>,
     <<" ", "7", "6", "6", "W">>, <<" ", "8", "0">>, <<" ", "9", "5", "0">>, <<" ", "T", "S">>,
     <<" ", "6", "4">>, <<" ", "N", "E", "Q">>, <<" ", "3", "0">>, <<" ", "2", "5">>,
     <<" ", "2", "0">>, <<" ", "2", "8">>, <<" ", "1", "0", "0", "8">>, <<" ", "2", "0", "0">>,
     <<" ", "0">>, <<" ", "0">>, <<" ", "0">>, <<" ", "L">>, <<" ", "K", "A", "T", "I", "A">>,
     <<" ">>, <<" ", "0">>, <<" ", "0">>, <<" ", "I", "N", "V", "E", "S", "T">> >>

\* "AL, 09, 2011082712, , BEST, 0, , , 70, 960, , 34, NEQ, 90, 0, 0, 0, 1008, 200, 30"
Line_o3 ==
  << <<"A", "L">>, <<" ", "0", "9">>, <<" ", "2", "0", "1", "1", "0", "8", "2", "7", "1", "2">>,
     <<" ">>, <<" ", "B", "E", "S", "T">>, <<" ", "0">>, <<" ">>, <<" ">>, <<" ", "7", "0">>,
     <<" ", "9", "6", "0">>, <<" ">>, <<" ", "3", "4">>, <<" ", "N", "E", "Q">>,
     <<" ", "9", "0">>, <<" ", "0">>, <<" ", "0">>, <<" ", "0">>, <<" ", "1", "0", "0", "8">>,
     <<" ", "2", "0", "0">>, <<" ", "3", "0">> >>

\* "AL, 09, 2012010100, , BEST, 0, 350N, 770W, -5, -999, TS, 50, NEQ, 50, 40, 30, 20"
Line_o4 ==
  << <<"A", "L">>, <<" ", "0", "9">>, <<" ", "2", "0", "1", "2", "0", "1", "0", "1", "0", "0">>,
     <<" ">>, <<" ", "B", "E", "S", "T">>, <<" ", "0">>, <<" ", "3", "5", "0", "N">>,
     <<" ", "7", "7", "0", "W">>, <<" ", "-", "5">>, <<" ", "-", "9", "9", "9">>,
     <<" ", "T", "S">>, <<" ", "5", "0">>, <<" ", "N", "E", "Q">>, <<" ", "5", "0">>,
     <<" ", "4", "0">>, <<" ", "3", "0">>, <<" ", "2", "0">> >>

\* "AL, 09, ABCDEFGHIJ, , BEST, 0, 221N, 755W, 30, 1005, TD"
Line_o5 ==
  << <<"A", "L">>, <<" ", "0", "9">>, <<" ", "A", "B", "C", "D", "E", "F", "G", "H", "I", "J">>,
     <<" ">>, <<" ", "B", "E", "S", "T">>, <<" ", "0">>, <<" ", "2", "2", "1", "N">>,
     <<" ", "7", "5", "5", "W">>, <<" ", "3", "0">>, <<" ", "1", "0", "0", "5">>,
     <<" ", "T", "D">> >>

\* "ep, 1, 2012051506, , BEST, 0, 100N, 1050W, 25, 1006, TD, 0, , 0, 0, 0, 0, 0, 0, 0, 0, 0, , 0, , 0, 0, THREE"
Line_o6 ==
  << <<"e", "p">>, <<" ", "1">>, <<" ", "2", "0", "1", "2", "0", "5", "1", "5", "0", "6">>,
     <<" ">>, <<" ", "B", "E", "S", "T">>, <<" ", "0">>, <<" ", "1", "0", "0", "N">>,
     <<" ", "1", "0", "5", "0", "W">>, <<" ", "2", "5">>, <<" ", "1", "0", "0", "6">>,
     <<" ", "T", "D">>, <<" ", "0">>, <<" ">>, <<" ", "0">>, <<" ", "0">>, <<" ", "0">>,
     <<" ", "0">>, <<" ", "0">>, <<" ", "0">>, <<" ", "0">>, <<" ", "0">>, <<" ", "0">>, <<" ">>,
     <<" ", "0">>, <<" ">>, <<" ", "0">>, <<" ", "0">>, <<" ", "T", "H", "R", "E", "E">> >>

\* "AL, 09, 2011082718"
Line_o7 ==
  << <<"A", "L">>, <<" ", "0", "9">>, <<" ", "2", "0", "1", "1", "0", "8", "2", "7", "1", "8">> >>

\* "AL, 09, 2011, BEST, , 2011082706, L, HU, 34.0N, 76.0W, 65, 970"
Line_o8 ==
  << <<"A", "L">>, <<" ", "0", "9">>, <<" ", "2", "0", "1", "1">>, <<" ", "B", "E", "S", "T">>,
     <<" ">>, <<" ", "2", "0", "1", "1", "0", "8", "2", "7", "0", "6">>, <<" ", "L">>,
     <<" ", "H", "U">>, <<" ", "3", "4", ".", "0", "N">>, <<" ", "7", "6", ".", "0", "W">>,
     <<" ", "6", "5">>, <<" ", "9", "7", "0">> >>

\* "AL09, 20, 0011082712, , BEST, 0, 344N, 765W, 75, 952, HU"
Line_o9 ==
  << <<"A", "L", "0", "9">>, <<" ", "2", "0">>,
     <<" ", "0", "0", "1", "1", "0", "8", "2", "7", "1", "2">>, <<" ">>,
     <<" ", "B", "E", "S", "T">>, <<" ", "0">>, <<" ", "3", "4", "4", "N">>,
     <<" ", "7", "6", "5", "W">>, <<" ", "7", "5">>, <<" ", "9", "5", "2">>, <<" ", "H", "U">> >>

\* ""
Line_blank ==
  << <<>> >>

LinePool ==
  << Line_h1, Line_h2, Line_h3, Line_r1, Line_r2, Line_r3, Line_r4, Line_r5,
     Line_o1, Line_o2, Line_o3, Line_o4, Line_o5, Line_o6, Line_o7, Line_o8, Line_o9, Line_blank >>

\* END LINE POOL

\* The places in LinePool of the archive lines (headers and data rows) and of
\* the operational rows.
ArchiveLines == 1..8

OperationalLines == 9..17

\* The lines of the texts that mix the two formats and the empty line: a
\* header, a data row, an operational row, a row of three fields, the empty line.
MixedLines == {1, 4, 9, 15, 18}

\* The longest archive text, operational text and mixed text, in lines.
MaxArchiveLines == 3

MaxOperationalLines == 3

MaxMixedLines == 2

\* The non-empty sequences over S of at most n elements.
SeqsUpTo(S, n) == UNION {[1..k -> S] : k \in 1..n}

\* A text is a sequence of lines, each named by its place in LinePool.
Texts ==
  SeqsUpTo(ArchiveLines, MaxArchiveLines)
    \cup SeqsUpTo(OperationalLines, MaxOperationalLines)
    \cup SeqsUpTo(MixedLines, MaxMixedLines)

\* l.trim() on a line given by its pieces: white space goes from the start of
\* the first piece and from the end of the last.
TrimLine(line) ==
  LET n == Len(line)
  IN  [j \in 1..n |-> IF n = 1 THEN Trim(line[1])
                      ELSE IF j = 1 THEN TrimStart(line[1])
                      ELSE IF j = n THEN TrimEnd(line[n])
                      ELSE line[j]]

\* l.length > 0 for a trimmed line
NonEmptyLine(line) == ~(Len(line) = 1 /\ line[1] = <<>>)

\* !rawData: the text is the empty string.
IsEmptyText(text) == Len(text) = 1 /\ LinePool[text[1]] = << <<>> >>

\* rawData.replace(/\r\n/g, '\n').split('\n').map(l => l.trim()).filter(l => l.length > 0):
\* the lines that are kept, by their place in LinePool (the carriage return
\* left at the end of a line is white space, which trim removes).
SplitLines(text) ==
  SelectSeq(text, LAMBDA k : NonEmptyLine(TrimLine(LinePool[k])))

\* line.split(',').map(p => p.trim()) of each trimmed line of LinePool
PartsOfLine ==
  [k \in DOMAIN LinePool |->
     LET l == TrimLine(LinePool[k]) IN [j \in DOMAIN l |-> Trim(l[j])]]

\* line.split(',').map(p => p.trim()) of the trimmed line k
Parts(k) == PartsOfLine[k]

\* A variant of the test that wants the cyclone number written with two digits.
isAtcfTwoDigits(firstLine) ==
  /\ Len(firstLine) >= 3
  /\ Len(TrimEnd(firstLine[1])) = 2
  /\ IsLetter(TrimEnd(firstLine[1])[1]) /\ IsLetter(TrimEnd(firstLine[1])[2])
  /\ Len(Trim(firstLine[2])) = 2
  /\ \A k \in DOMAIN Trim(firstLine[2]) : IsDigit(Trim(firstLine[2])[k])

\* /^[A-Za-z]{2}\s*,\s*\d{1,2}\s*,/.test(firstLine)
isAtcf(firstLine) ==
  /\ Len(firstLine) >= 3
  /\ LET a == TrimEnd(firstLine[1])
         b == Trim(firstLine[2])
     IN  /\ Len(a) = 2 /\ IsLetter(a[1]) /\ IsLetter(a[2])
         /\ Len(b) \in {1, 2} /\ \A k \in DOMAIN b : IsDigit(b[k])

(***************************************************************************)
(* State                                                                   *)
(***************************************************************************)
VARIABLES
  pc,              \* where the call stands: idle, std, group, forEach, pass1, pass2, done, threw
  rev,             \* the revision of the parser that runs: 1 or 2
  callsLeft,       \* calls the caller may still make
  rawData,         \* the text passed to parseHurdat2
  lines,           \* its non-empty trimmed lines
  idx,             \* the loop position in lines, or in the lines of the group
  stormMap,        \* parseStandardHurdat: the Map of Storms, in insertion order
  currentStormId,  \* parseStandardHurdat: the cursor
  rawGroups,       \* parseAtcf: the Map of groups, in insertion order
  grp,             \* parseAtcf: the group forEach is at
  seasonYear,      \* parseAtcf: the group's year
  stormName,       \* parseAtcf: the group's name
  pointMap,        \* parseAtcf: the Map of observations by timestamp (rev 1: the track array)
  storms,          \* parseAtcf: the Storms emitted so far
  result,          \* what the call returned
  returned,        \* what earlier calls returned, each with its text
  allocated,       \* the number of Storm and observation objects created so far
  coord,           \* parseCoordinate called on its own: its argument
  degrees,         \* parseCoordinate called on its own: what it returned, in tenths
  userStorms,      \* App: the user storm list
  imported,        \* App: the batches handleDataImport was given since the list was empty
  archiveStorms,   \* App, initApp: what parseHurdat2 made of the archive
  liveStorms,      \* App, initApp: what parseHurdat2 made of the live files, concatenated
  appStep          \* App, initApp: mounted, saved, failed, archive, live, combined

\* The state outside a call of parseHurdat2, which no step of a call changes.
otherVars == <<coord, degrees, userStorms, imported, archiveStorms, liveStorms, appStep>>

vars == <<pc, rev, callsLeft, rawData, lines, idx, stormMap, currentStormId, rawGroups,
          grp, seasonYear, stormName, pointMap, storms, result, returned, allocated,
          coord, degrees, userStorms, imported, archiveStorms, liveStorms, appStep>>

\* An object literal evaluates to a new object: its reference is one no
\* object created before has.
NewRef == allocated + 1

Null == <<"null">>

\* An optional field that is absent (radii, rmw); a present value v is <<v>>.
Absent == <<>>

(***************************************************************************)
(* parseStandardHurdat                                                     *)
(***************************************************************************)
\* parts[0].length === 8 && /^[A-Z]{2}\d{6}/.test(parts[0]) && parts.length < 10
isHeader(parts) ==
  /\ Len(parts[1]) = 8
  /\ IsUpper(parts[1][1]) /\ IsUpper(parts[1][2])
  /\ \A k \in 3..8 : IsDigit(parts[1][k])
  /\ Len(parts) < 10

\* stormMap.has(stormId)
HasStorm(map, stormId) == \E k \in DOMAIN map : map[k].id = stormId

StormIndex(map, stormId) == CHOOSE k \in DOMAIN map : map[k].id = stormId

\* A variant that reads the year two characters early.
NewStormYearAtTwo(parts) ==
  [ref       |-> NewRef,
   id        |-> parts[1],
   name      |-> IF Truthy(At(parts, 1)) THEN parts[2] ELSE s_UNNAMED,
   year      |-> parseInt(Substring(parts[1], 2, 6)),
   dataCount |-> 0,
   track     |-> <<>>]

\* The Storm a header creates.
NewStorm(parts) ==
  [ref       |-> NewRef,
   id        |-> parts[1],
   name      |-> IF Truthy(At(parts, 1)) THEN parts[2] ELSE s_UNNAMED,
   year      |-> parseInt(Substring(parts[1], 4, 8)),
   dataCount |-> 0,
   track     |-> <<>>]

\* A variant in which a header of an id the Map holds replaces its Storm.
HeaderEffectReplace(map, parts) ==
  IF HasStorm(map, parts[1])
  THEN [map EXCEPT ![StormIndex(map, parts[1])] = NewStorm(parts)]
  ELSE Append(map, NewStorm(parts))

\* if (!stormMap.has(stormId)) stormMap.set(stormId, {...})
HeaderEffect(map, parts) ==
  IF HasStorm(map, parts[1]) THEN map ELSE Append(map, NewStorm(parts))

\* A variant in which the later revision stores the pressure -999 as it is.
PressureKeptInLater(s) ==
  IF rev = 1 /\ parseInt(s) = Num(0 - 999) THEN 0 ELSE IntOrZero(s)

\* parseInt(s, 10) === -999 ? 0 : (parseInt(s, 10) || 0)
Pressure(s) == IF parseInt(s) = Num(0 - 999) THEN 0 ELSE IntOrZero(s)

\* A variant that builds the structure for every row of at least 20 fields,
\* also when all twelve values are 0.
StdRadiiOfTwenty(parts) ==
  IF rev = 2 /\ Len(parts) >= 20
  THEN <<[ne34 |-> IntOrZero(At(parts, 8)),  se34 |-> IntOrZero(At(parts, 9)),
          sw34 |-> IntOrZero(At(parts, 10)), nw34 |-> IntOrZero(At(parts, 11)),
          ne50 |-> IntOrZero(At(parts, 12)), se50 |-> IntOrZero(At(parts, 13)),
          sw50 |-> IntOrZero(At(parts, 14)), nw50 |-> IntOrZero(At(parts, 15)),
          ne64 |-> IntOrZero(At(parts, 16)), se64 |-> IntOrZero(At(parts, 17)),
          sw64 |-> IntOrZero(At(parts, 18)), nw64 |-> IntOrZero(At(parts, 19))]>>
  ELSE Absent

\* The twelve radii of an archive row (rev 2): present when the row has at
\* least 20 fields and one of the values of columns 8..19 is positive.
StdRadii(parts) ==
  IF rev = 2 /\ Len(parts) >= 20 /\ \E k \in 8..19 : IntOrZero(At(parts, k)) > 0
  THEN <<[ne34 |-> IntOrZero(At(parts, 8)),  se34 |-> IntOrZero(At(parts, 9)),
          sw34 |-> IntOrZero(At(parts, 10)), nw34 |-> IntOrZero(At(parts, 11)),
          ne50 |-> IntOrZero(At(parts, 12)), se50 |-> IntOrZero(At(parts, 13)),
          sw50 |-> IntOrZero(At(parts, 14)), nw50 |-> IntOrZero(At(parts, 15)),
          ne64 |-> IntOrZero(At(parts, 16)), se64 |-> IntOrZero(At(parts, 17)),
          sw64 |-> IntOrZero(At(parts, 18)), nw64 |-> IntOrZero(At(parts, 19))]>>
  ELSE Absent

\* if (parts[20]) { const r = parseInt(parts[20], 10); if (r > 0) rmw = r; }
StdRmw(parts) ==
  IF rev = 2 /\ Len(parts) >= 20 /\ Truthy(At(parts, 20))
     /\ ~IsNaN(parseInt(At(parts, 20))) /\ parseInt(At(parts, 20))[1] > 0
  THEN <<parseInt(At(parts, 20))[1]>>
  ELSE Absent

\* The observation of an archive data row.
StdPoint(parts) ==
  LET d == parseDate(At(parts, 0), At(parts, 1))
  IN  [ref              |-> NewRef,
       date             |-> d.formatted,
       time             |-> At(parts, 1),
       datetime         |-> d.iso,
       recordIdentifier |-> At(parts, 2),
       status           |-> At(parts, 3),
       lat              |-> parseCoordinate(At(parts, 4)),
       lon              |-> parseCoordinate(At(parts, 5)),
       maxWind          |-> IntOrZero(At(parts, 6)),
       minPressure      |-> Pressure(At(parts, 7)),
       originalLat      |-> At(parts, 4),
       originalLon      |-> At(parts, 5),
       radii            |-> StdRadii(parts),
       rmw              |-> StdRmw(parts)]

\* A variant without the test of the cursor.
IsDataRowAnywhere(cursor, parts) ==
  /\ Len(parts) >= 4
  /\ Truthy(At(parts, 0)) /\ Truthy(At(parts, 4)) /\ Truthy(At(parts, 5))

\* A variant that wants the eight core fields of a data row.
IsDataRowOfEight(cursor, parts) ==
  /\ cursor # Null
  /\ Len(parts) >= 8
  /\ Truthy(At(parts, 0)) /\ Truthy(At(parts, 4)) /\ Truthy(At(parts, 5))

\* currentStormId && parts.length >= 4, and none of date, latitude, longitude empty
IsDataRow(cursor, parts) ==
  /\ cursor # Null
  /\ Len(parts) >= 4
  /\ Truthy(At(parts, 0)) /\ Truthy(At(parts, 4)) /\ Truthy(At(parts, 5))

\* A variant that appends to the first Storm of the Map, whatever the cursor.
PushPointToFirst(map, stormId, point) ==
  [map EXCEPT ![1].track = Append(@, point)]

\* storm.track.push(point)
PushPoint(map, stormId, point) ==
  LET k == StormIndex(map, stormId)
  IN  [map EXCEPT ![k].track = Append(@, point)]

\* s.track.sort(...); s.dataCount = s.track.length
Finalize(s) ==
  LET sorted == SortByDatetime(s.track)
  IN  [s EXCEPT !.track = sorted, !.dataCount = Len(sorted)]

\* A variant that returns every Storm of the Map.
EveryStorm(list) == list

\* result.filter(s => s.track.length > 0)
NonEmptyStorms(list) == SelectSeq(list, LAMBDA s : Len(s.track) > 0)

\* What parseStandardHurdat returns for the Map it built.
StdResult(map) == NonEmptyStorms([k \in DOMAIN map |-> Finalize(map[k])])

\* A header line: the cursor moves, and a first header creates the Storm.
StdHeader ==
  /\ pc = "std"
  /\ idx <= Len(lines)
  /\ isHeader(Parts(lines[idx]))
  /\ stormMap' = HeaderEffect(stormMap, Parts(lines[idx]))
  /\ currentStormId' = Parts(lines[idx])[1]
  /\ idx' = idx + 1
  /\ allocated' = allocated + (Len(stormMap') - Len(stormMap))
  /\ UNCHANGED <<pc, rev, callsLeft, rawData, lines, rawGroups, grp, seasonYear,
                 stormName, pointMap, storms, result, returned>>
  /\ UNCHANGED otherVars

\* A data row: its observation is appended to the Storm under the cursor.
\* stormMap.get(currentStormId)! of an id the Map does not hold is undefined,
\* and storm.track.push then throws.
StdDataRow ==
  /\ pc = "std"
  /\ idx <= Len(lines)
  /\ ~isHeader(Parts(lines[idx]))
  /\ IsDataRow(currentStormId, Parts(lines[idx]))
  /\ IF HasStorm(stormMap, currentStormId)
     THEN /\ stormMap' = PushPoint(stormMap, currentStormId, StdPoint(Parts(lines[idx])))
          /\ idx' = idx + 1
          /\ pc' = pc
          /\ allocated' = allocated + 1
     ELSE /\ pc' = "threw"
          /\ UNCHANGED <<stormMap, idx, allocated>>
  /\ UNCHANGED <<rev, callsLeft, rawData, lines, currentStormId, rawGroups, grp,
                 seasonYear, stormName, pointMap, storms, result, returned>>
  /\ UNCHANGED otherVars

\* Any other line is skipped.
StdSkip ==
  /\ pc = "std"
  /\ idx <= Len(lines)
  /\ ~isHeader(Parts(lines[idx]))
  /\ ~IsDataRow(currentStormId, Parts(lines[idx]))
  /\ idx' = idx + 1
  /\ UNCHANGED <<pc, rev, callsLeft, rawData, lines, stormMap, currentStormId, rawGroups,
                 grp, seasonYear, stormName, pointMap, storms, result, returned, allocated>>
  /\ UNCHANGED otherVars

\* After the last line: sort, count, drop the empty Storms, return.
StdFinish ==
  /\ pc = "std"
  /\ idx > Len(lines)
  /\ result' = StdResult(stormMap)
  /\ pc' = "done"
  /\ UNCHANGED <<rev, callsLeft, rawData, lines, idx, stormMap, currentStormId, rawGroups,
                 grp, seasonYear, stormName, pointMap, storms, returned, allocated>>
  /\ UNCHANGED otherVars

\* A variant that takes the cyclone number as it is written.
GroupKeyAsWritten(parts) == ToUpperCase(parts[1]) \o parts[2]

(***************************************************************************)
(* parseAtcf                                                               *)
(***************************************************************************)
\* The line is bucketed when it has two fields, a basin and a number.
HasGroupKey(parts) ==
  /\ Len(parts) >= 2
  /\ Truthy(ToUpperCase(parts[1]))
  /\ ~IsNaN(parseInt(parts[2]))

\* `${basin}${cy.toString().padStart(2, '0')}`
GroupKey(parts) ==
  ToUpperCase(parts[1]) \o PadStart2(NumToString(parseInt(parts[2])))

HasGroup(groups, key) == \E k \in DOMAIN groups : groups[k].key = key

GroupIndex(groups, key) == CHOOSE k \in DOMAIN groups : groups[k].key = key

\* if (!rawGroups.has(key)) rawGroups.set(key, []); rawGroups.get(key)!.push(line)
AddToGroup(groups, key, line) ==
  IF HasGroup(groups, key)
  THEN [groups EXCEPT ![GroupIndex(groups, key)].lines = Append(@, line)]
  ELSE Append(groups, [key |-> key, lines |-> <<line>>])

\* col2 && col2.length === 10
HasTenCharDate(parts) == Truthy(At(parts, 2)) /\ Len(At(parts, 2)) = 10

\* Pass 1, the year after a row.  rev 2: a row of at least 8 fields whose date
\* field has 10 characters sets it, once.  rev 1: such a row, or any row of at
\* least 8 fields through its third field taken as the year.
YearAfter(year, parts) ==
  IF Len(parts) < 8 THEN year
  ELSE LET yearRaw == IF HasTenCharDate(parts) THEN Substring(parts[3], 0, 4)
                      ELSE IF rev = 1 THEN parts[3]
                      ELSE <<>>
       IN  IF year = Num(0) /\ Truthy(yearRaw) THEN parseInt(yearRaw) ELSE year

\* parts[k] && isNaN(parseInt(parts[k])) && !isGenericName(parts[k])
UsableName(s) == Truthy(s) /\ IsNaN(parseInt(s)) /\ ~isGenericName(s)

\* Pass 1, the name after a row.  rev 2: column 27, else column 23 when it is
\* not empty and not generic.  rev 1: column 27 of a row with a 10-character
\* date, column 23 of any other row.
NameAfter(name, parts) ==
  IF Len(parts) < 8 THEN name
  ELSE IF rev = 2
       THEN IF ~HasTenCharDate(parts) THEN name
            ELSE IF UsableName(At(parts, 27)) THEN parts[28]
            ELSE IF Truthy(At(parts, 23)) /\ ~isGenericName(At(parts, 23)) THEN parts[24]
            ELSE name
       ELSE IF HasTenCharDate(parts)
            THEN (IF UsableName(At(parts, 27)) THEN parts[28] ELSE name)
            ELSE (IF UsableName(At(parts, 23)) THEN parts[24] ELSE name)

\* if (seasonYear === 0) return
GroupDiscarded(year) == year = Num(0)

\* The all-zero radii a new observation starts with (rev 2).
ZeroRadii ==
  [ne34 |-> 0, se34 |-> 0, sw34 |-> 0, nw34 |-> 0,
   ne50 |-> 0, se50 |-> 0, sw50 |-> 0, nw50 |-> 0,
   ne64 |-> 0, se64 |-> 0, sw64 |-> 0, nw64 |-> 0]

\* if (parts[k]) v = safeInt(parts[k]), v being 0 before
SafeIntAt(parts, k) == IF Truthy(At(parts, k)) THEN IntOrZero(At(parts, k)) ELSE 0

\* A variant in which a threshold's quadrants are written once: a later row
\* with the same code leaves them as they are.
MergeRadiiOnce(radii, windCode, ne, se, sw, nw) ==
  IF windCode = 34 /\ <<radii.ne34, radii.se34, radii.sw34, radii.nw34>> = <<0, 0, 0, 0>>
  THEN [radii EXCEPT !.ne34 = ne, !.se34 = se, !.sw34 = sw, !.nw34 = nw]
  ELSE IF windCode = 50 /\ <<radii.ne50, radii.se50, radii.sw50, radii.nw50>> = <<0, 0, 0, 0>>
  THEN [radii EXCEPT !.ne50 = ne, !.se50 = se, !.sw50 = sw, !.nw50 = nw]
  ELSE IF windCode = 64 /\ <<radii.ne64, radii.se64, radii.sw64, radii.nw64>> = <<0, 0, 0, 0>>
  THEN [radii EXCEPT !.ne64 = ne, !.se64 = se, !.sw64 = sw, !.nw64 = nw]
  ELSE radii

\* A variant that writes the quadrants into an all-zero structure: the values
\* of the other thresholds are lost.
MergeRadiiFresh(radii, windCode, ne, se, sw, nw) ==
  IF windCode = 34
  THEN [ZeroRadii EXCEPT !.ne34 = ne, !.se34 = se, !.sw34 = sw, !.nw34 = nw]
  ELSE IF windCode = 50
  THEN [ZeroRadii EXCEPT !.ne50 = ne, !.se50 = se, !.sw50 = sw, !.nw50 = nw]
  ELSE IF windCode = 64
  THEN [ZeroRadii EXCEPT !.ne64 = ne, !.se64 = se, !.sw64 = sw, !.nw64 = nw]
  ELSE radii

\* The quadrants of threshold windCode are overwritten; another code writes nothing.
MergeRadii(radii, windCode, ne, se, sw, nw) ==
  IF windCode = 34
  THEN [radii EXCEPT !.ne34 = ne, !.se34 = se, !.sw34 = sw, !.nw34 = nw]
  ELSE IF windCode = 50
  THEN [radii EXCEPT !.ne50 = ne, !.se50 = se, !.sw50 = sw, !.nw50 = nw]
  ELSE IF windCode = 64
  THEN [radii EXCEPT !.ne64 = ne, !.se64 = se, !.sw64 = sw, !.nw64 = nw]
  ELSE radii

\* pointMap.get(timeKey)
HasPoint(map, timeKey) == \E k \in DOMAIN map : map[k].datetime = timeKey

PointIndex(map, timeKey) == CHOOSE k \in DOMAIN map : map[k].datetime = timeKey

\* The observation a row creates (the operational format of both revisions).
AtcfPoint(rawDate, latStr, lonStr, windStr, pressureStr, status, recordIdentifier) ==
  LET timeStr == Substring(rawDate, 8, 10) \o <<"0", "0">>
      d       == parseDate(Substring(rawDate, 0, 8), timeStr)
  IN  [ref              |-> NewRef,
       date             |-> d.formatted,
       time             |-> timeStr,
       datetime         |-> d.iso,
       recordIdentifier |-> IF Truthy(recordIdentifier) THEN recordIdentifier ELSE <<>>,
       status           |-> IF Truthy(status) THEN status ELSE <<>>,
       lat              |-> parseCoordinate(latStr),
       lon              |-> parseCoordinate(lonStr),
       maxWind          |-> IntOrZero(windStr),
       minPressure      |-> Pressure(pressureStr),
       originalLat      |-> latStr,
       originalLon      |-> lonStr,
       radii            |-> IF rev = 2 THEN <<ZeroRadii>> ELSE Absent,
       rmw              |-> Absent]

\* A variant of pass 2 in which a row at a timestamp that has an observation
\* rewrites the core fields of that observation.
MergeRowLastCore(map, parts) ==
  IF Len(parts) < 8 \/ ~Truthy(At(parts, 2)) \/ Len(At(parts, 2)) # 10 THEN map
  ELSE LET fresh == AtcfPoint(parts[3], At(parts, 6), At(parts, 7), At(parts, 8),
                              At(parts, 9), At(parts, 10), <<>>)
           known == HasPoint(map, fresh.datetime)
       IN  IF ~known /\ (~Truthy(At(parts, 6)) \/ ~Truthy(At(parts, 7))) THEN map
           ELSE LET with == IF known THEN map ELSE Append(map, fresh)
                    k    == PointIndex(with, fresh.datetime)
                IN  [with EXCEPT ![k] =
                       [fresh EXCEPT
                          !.ref   = with[k].ref,
                          !.rmw   = IF SafeIntAt(parts, 19) > 0
                                    THEN <<SafeIntAt(parts, 19)>> ELSE with[k].rmw,
                          !.radii = <<MergeRadii(with[k].radii[1], SafeIntAt(parts, 11),
                                                 SafeIntAt(parts, 13), SafeIntAt(parts, 14),
                                                 SafeIntAt(parts, 15), SafeIntAt(parts, 16))>>]]

\* A variant of pass 2 that skips every row without a latitude or a longitude,
\* also when its timestamp has an observation.
MergeRowNeedsPosition(map, parts) ==
  IF Len(parts) < 8 \/ ~Truthy(At(parts, 2)) \/ Len(At(parts, 2)) # 10 THEN map
  ELSE LET fresh == AtcfPoint(parts[3], At(parts, 6), At(parts, 7), At(parts, 8),
                              At(parts, 9), At(parts, 10), <<>>)
           known == HasPoint(map, fresh.datetime)
       IN  IF ~Truthy(At(parts, 6)) \/ ~Truthy(At(parts, 7)) THEN map
           ELSE LET with == IF known THEN map ELSE Append(map, fresh)
                    k    == PointIndex(with, fresh.datetime)
                IN  [with EXCEPT ![k] =
                       [with[k] EXCEPT
                          !.rmw   = IF SafeIntAt(parts, 19) > 0
                                    THEN <<SafeIntAt(parts, 19)>> ELSE @,
                          !.radii = <<MergeRadii(@[1], SafeIntAt(parts, 11),
                                                 SafeIntAt(parts, 13), SafeIntAt(parts, 14),
                                                 SafeIntAt(parts, 15), SafeIntAt(parts, 16))>>]]

\* A variant of pass 2 in which the first positive radius of maximum wind of
\* a timestamp stays.
MergeRowFirstRmw(map, parts) ==
  IF Len(parts) < 8 \/ ~Truthy(At(parts, 2)) \/ Len(At(parts, 2)) # 10 THEN map
  ELSE LET fresh == AtcfPoint(parts[3], At(parts, 6), At(parts, 7), At(parts, 8),
                              At(parts, 9), At(parts, 10), <<>>)
           known == HasPoint(map, fresh.datetime)
       IN  IF ~known /\ (~Truthy(At(parts, 6)) \/ ~Truthy(At(parts, 7))) THEN map
           ELSE LET with == IF known THEN map ELSE Append(map, fresh)
                    k    == PointIndex(with, fresh.datetime)
                IN  [with EXCEPT ![k] =
                       [with[k] EXCEPT
                          !.rmw   = IF SafeIntAt(parts, 19) > 0 /\ @ = Absent
                                    THEN <<SafeIntAt(parts, 19)>> ELSE @,
                          !.radii = <<MergeRadii(@[1], SafeIntAt(parts, 11),
                                                 SafeIntAt(parts, 13), SafeIntAt(parts, 14),
                                                 SafeIntAt(parts, 15), SafeIntAt(parts, 16))>>]]

\* Pass 2 of rev 2 on one row: the Map of observations after it.
MergeRow(map, parts) ==
  IF Len(parts) < 8 \/ ~Truthy(At(parts, 2)) \/ Len(At(parts, 2)) # 10 THEN map
  ELSE LET rawDate  == parts[3]
           windCode == SafeIntAt(parts, 11)
           ne       == SafeIntAt(parts, 13)
           se       == SafeIntAt(parts, 14)
           sw       == SafeIntAt(parts, 15)
           nw       == SafeIntAt(parts, 16)
           rmwVal   == SafeIntAt(parts, 19)
           fresh    == AtcfPoint(rawDate, At(parts, 6), At(parts, 7), At(parts, 8),
                                 At(parts, 9), At(parts, 10), <<>>)
           timeKey  == fresh.datetime
           known    == HasPoint(map, timeKey)
       IN  IF ~known /\ (~Truthy(At(parts, 6)) \/ ~Truthy(At(parts, 7))) THEN map
           ELSE LET with  == IF known THEN map ELSE Append(map, fresh)
                    k     == PointIndex(with, timeKey)
                    point == with[k]
                IN  [with EXCEPT ![k] =
                       [point EXCEPT
                          !.rmw   = IF rmwVal > 0 THEN <<rmwVal>> ELSE @,
                          !.radii = IF @ # Absent
                                    THEN <<MergeRadii(@[1], windCode, ne, se, sw, nw)>>
                                    ELSE @]]

\* Pass 2 of rev 1 on one row: the track array after it.
PushRow(track, parts) ==
  IF Len(parts) < 8 THEN track
  ELSE LET std     == HasTenCharDate(parts)
           rawDate == IF std THEN parts[3] ELSE At(parts, 5)
           latStr  == IF std THEN At(parts, 6) ELSE At(parts, 8)
           lonStr  == IF std THEN At(parts, 7) ELSE At(parts, 9)
           windStr == IF std THEN At(parts, 8) ELSE At(parts, 10)
           presStr == IF std THEN At(parts, 9) ELSE At(parts, 11)
           status  == IF std THEN At(parts, 10) ELSE At(parts, 7)
           recId   == IF std THEN <<>> ELSE At(parts, 6)
       IN  IF ~Truthy(rawDate) \/ Len(rawDate) < 10 THEN track
           ELSE IF ~Truthy(latStr) \/ ~Truthy(lonStr) THEN track
           ELSE Append(track, AtcfPoint(rawDate, latStr, lonStr, windStr, presStr,
                                        status, recId))

\* Pass 2 on one row.
RowEffect(map, parts) == IF rev = 2 THEN MergeRow(map, parts) ELSE PushRow(map, parts)

\* if (stormName === 'UNNAMED') stormName = `STORM ${groupKey.substring(2)}`
FinalName(name, groupKey) ==
  IF name = s_UNNAMED THEN s_STORM \o <<" ">> \o Substring(groupKey, 2, Len(groupKey))
  ELSE name

\* The Storm a group emits.
GroupStorm(groupKey, year, name, track) ==
  [ref       |-> NewRef,
   id        |-> groupKey \o NumToString(year),
   name      |-> FinalName(name, groupKey),
   year      |-> year,
   dataCount |-> Len(track),
   track     |-> track]

\* if (track.length > 0) { track.sort(...); storms.push({...}) }
EmitGroup(list, groupKey, year, name, map) ==
  IF Len(map) > 0
  THEN Append(list, GroupStorm(groupKey, year, name, SortByDatetime(map)))
  ELSE list

\* The lines of the group forEach is at.
GroupLines == rawGroups[grp].lines

\* The grouping loop on one line.
AtcfBucket ==
  /\ pc = "group"
  /\ idx <= Len(lines)
  /\ rawGroups' = IF HasGroupKey(Parts(lines[idx]))
                  THEN AddToGroup(rawGroups, GroupKey(Parts(lines[idx])), lines[idx])
                  ELSE rawGroups
  /\ idx' = idx + 1
  /\ UNCHANGED <<pc, rev, callsLeft, rawData, lines, stormMap, currentStormId, grp,
                 seasonYear, stormName, pointMap, storms, result, returned, allocated>>
  /\ UNCHANGED otherVars

\* After the last line rawGroups.forEach starts.
AtcfBucketsDone ==
  /\ pc = "group"
  /\ idx > Len(lines)
  /\ pc' = "forEach"
  /\ grp' = 1
  /\ UNCHANGED <<rev, callsLeft, rawData, lines, idx, stormMap, currentStormId, rawGroups,
                 seasonYear, stormName, pointMap, storms, result, returned, allocated>>
  /\ UNCHANGED otherVars

\* The callback starts on a group: its locals are fresh.
AtcfBeginGroup ==
  /\ pc = "forEach"
  /\ grp <= Len(rawGroups)
  /\ seasonYear' = Num(0)
  /\ pointMap' = <<>>
  /\ stormName' = s_UNNAMED
  /\ idx' = 1
  /\ pc' = "pass1"
  /\ UNCHANGED <<rev, callsLeft, rawData, lines, stormMap, currentStormId, rawGroups, grp,
                 storms, result, returned, allocated>>
  /\ UNCHANGED otherVars

\* Pass 1 on one row of the group: the year and the name.
AtcfPass1Row ==
  /\ pc = "pass1"
  /\ idx <= Len(GroupLines)
  /\ seasonYear' = YearAfter(seasonYear, Parts(GroupLines[idx]))
  /\ stormName' = NameAfter(stormName, Parts(GroupLines[idx]))
  /\ idx' = idx + 1
  /\ UNCHANGED <<pc, rev, callsLeft, rawData, lines, stormMap, currentStormId, rawGroups,
                 grp, pointMap, storms, result, returned, allocated>>
  /\ UNCHANGED otherVars

\* After pass 1: a group without a year is left, the others go to pass 2.
AtcfPass1Done ==
  /\ pc = "pass1"
  /\ idx > Len(GroupLines)
  /\ IF GroupDiscarded(seasonYear)
     THEN /\ pc' = "forEach"
          /\ grp' = grp + 1
          /\ idx' = idx
     ELSE /\ pc' = "pass2"
          /\ grp' = grp
          /\ idx' = 1
  /\ UNCHANGED <<rev, callsLeft, rawData, lines, stormMap, currentStormId, rawGroups,
                 seasonYear, stormName, pointMap, storms, result, returned, allocated>>
  /\ UNCHANGED otherVars

\* Pass 2 on one row of the group: its observation is created or merged.
AtcfPass2Row ==
  /\ pc = "pass2"
  /\ idx <= Len(GroupLines)
  /\ pointMap' = RowEffect(pointMap, Parts(GroupLines[idx]))
  /\ allocated' = allocated + (Len(pointMap') - Len(pointMap))
  /\ idx' = idx + 1
  /\ UNCHANGED <<pc, rev, callsLeft, rawData, lines, stormMap, currentStormId, rawGroups,
                 grp, seasonYear, stormName, storms, result, returned>>
  /\ UNCHANGED otherVars

\* After pass 2: the group's Storm is emitted when its track is not empty.
AtcfEndGroup ==
  /\ pc = "pass2"
  /\ idx > Len(GroupLines)
  /\ storms' = EmitGroup(storms, rawGroups[grp].key, seasonYear, stormName, pointMap)
  /\ allocated' = allocated + (Len(storms') - Len(storms))
  /\ grp' = grp + 1
  /\ pc' = "forEach"
  /\ UNCHANGED <<rev, callsLeft, rawData, lines, idx, stormMap, currentStormId, rawGroups,
                 seasonYear, stormName, pointMap, result, returned>>
  /\ UNCHANGED otherVars

\* After the last group parseAtcf returns its Storms.
AtcfReturn ==
  /\ pc = "forEach"
  /\ grp > Len(rawGroups)
  /\ result' = storms
  /\ pc' = "done"
  /\ UNCHANGED <<rev, callsLeft, rawData, lines, idx, stormMap, currentStormId, rawGroups,
                 grp, seasonYear, stormName, pointMap, storms, returned, allocated>>
  /\ UNCHANGED otherVars

(***************************************************************************)
(* parseHurdat2 and its caller                                             *)
(***************************************************************************)
\* A variant in which the Map is created once, outside the function, and
\* every call goes on with the Map of the call before.
StormMapOfLastCall == stormMap

\* The Map parseStandardHurdat starts with.
NewStormMap == <<>>

\* The Storm list parseAtcf starts with.
NewStorms == <<>>

\* parseHurdat2(text) up to the dispatch: an empty text and a text without a
\* non-empty line return []; otherwise the first line chooses the parser, whose
\* locals are created.
CallWith(text) ==
  /\ callsLeft' = callsLeft - 1
  /\ rawData' = text
  /\ lines' = IF IsEmptyText(text) THEN <<>> ELSE SplitLines(text)
  /\ idx' = 1
  /\ IF IsEmptyText(text) \/ SplitLines(text) = <<>>
     THEN /\ pc' = "done"
          /\ result' = <<>>
          /\ UNCHANGED <<stormMap, currentStormId, rawGroups, storms>>
     ELSE IF isAtcf(TrimLine(LinePool[SplitLines(text)[1]]))
     THEN /\ pc' = "group"
          /\ rawGroups' = <<>>
          /\ storms' = NewStorms
          /\ UNCHANGED <<stormMap, currentStormId, result>>
     ELSE /\ pc' = "std"
          /\ stormMap' = NewStormMap
          /\ currentStormId' = Null
          /\ UNCHANGED <<rawGroups, storms, result>>
  /\ UNCHANGED <<rev, grp, seasonYear, stormName, pointMap, returned, allocated>>
  /\ UNCHANGED otherVars

\* The caller may call when no call is running.
CanCall == pc = "idle" /\ callsLeft > 0

\* A call on any text.
Call == CanCall /\ \E text \in Texts : CallWith(text)

\* The caller takes the list the call returned.
Return ==
  /\ pc = "done"
  /\ pc' = "idle"
  /\ returned' = Append(returned, [text |-> rawData, result |-> result])
  /\ UNCHANGED <<rev, callsLeft, rawData, lines, idx, stormMap, currentStormId, rawGroups,
                 grp, seasonYear, stormName, pointMap, storms, result, allocated>>
  /\ UNCHANGED otherVars

Revisions == {1, 2}

\* The state before the first of n calls.
ParserInit(n) ==
  /\ pc = "idle"
  /\ rev \in Revisions
  /\ callsLeft = n
  /\ rawData = <<>>
  /\ lines = <<>>
  /\ idx = 1
  /\ stormMap = <<>>
  /\ currentStormId = Null
  /\ rawGroups = <<>>
  /\ grp = 1
  /\ seasonYear = Num(0)
  /\ stormName = s_UNNAMED
  /\ pointMap = <<>>
  /\ storms = <<>>
  /\ result = <<>>
  /\ returned = <<>>
  /\ allocated = 0

\* The App after construction: useState<Storm[]>([]), and initApp has not run.
AppInit ==
  /\ userStorms = <<>>
  /\ imported = <<>>
  /\ archiveStorms = <<>>
  /\ liveStorms = <<>>
  /\ appStep = "mounted"

\* The state before the first of n calls; parseCoordinate is not called on
\* its own, and the App is not run.
InitWith(n) ==
  /\ ParserInit(n)
  /\ coord = <<>>
  /\ degrees = Absent
  /\ AppInit

\* One call of parseHurdat2, of either revision, on any text.
Init == InitWith(1)

Next ==
  \/ Call
  \/ StdHeader
  \/ StdDataRow
  \/ StdSkip
  \/ StdFinish
  \/ AtcfBucket
  \/ AtcfBucketsDone
  \/ AtcfBeginGroup
  \/ AtcfPass1Row
  \/ AtcfPass1Done
  \/ AtcfPass2Row
  \/ AtcfEndGroup
  \/ AtcfReturn
  \/ Return

Spec == Init /\ [][Next]_vars

(***************************************************************************)
(* Several calls in a row, on a few texts of both formats.                 *)
(***************************************************************************)
\* The number of calls the caller makes.
MaxCalls == 3

\* The texts it passes: archive texts of the same id and of another id, with a
\* skipped row and with rows out of order; operational texts of one and of two
\* groups; the empty line.
CallTexts ==
  {<<1, 4, 7>>, <<2, 6>>, <<1, 5, 4>>, <<3, 4>>, <<9, 10>>, <<9, 12, 14>>, <<18>>}

CallAgain == CanCall /\ \E text \in CallTexts : CallWith(text)

InitCalls == InitWith(MaxCalls)

NextCalls ==
  \/ CallAgain
  \/ StdHeader
  \/ StdDataRow
  \/ StdSkip
  \/ StdFinish
  \/ AtcfBucket
  \/ AtcfBucketsDone
  \/ AtcfBeginGroup
  \/ AtcfPass1Row
  \/ AtcfPass1Done
  \/ AtcfPass2Row
  \/ AtcfEndGroup
  \/ AtcfReturn
  \/ Return

SpecCalls == InitCalls /\ [][NextCalls]_vars

(***************************************************************************)
(* parseCoordinate called on its own, on strings of a sign, digits, a      *)
(* decimal point and a direction letter.                                   *)
(***************************************************************************)
\* The number of digits before the decimal point.
MaxCoordDigits == 3

\* The strings: white space, a sign, up to MaxCoordDigits digits, a decimal
\* part, a last character that is a direction in either case or is not one;
\* and an argument that is undefined.
CoordStrings ==
  {lead \o sign \o ip \o fp \o dir :
     lead \in {<<>>, <<" ">>},
     sign \in {<<>>, <<"-">>},
     ip \in {<<>>} \cup SeqsUpTo({"0", "2", "5"}, MaxCoordDigits),
     fp \in {<<>>, <<".">>, <<".", "1">>},
     dir \in {<<>>, <<"N">>, <<"S">>, <<"E">>, <<"W">>, <<"s">>, <<"X">>, <<"N", " ">>}}
    \cup {Undefined}

\* The variables of a call of parseHurdat2.
parserVars ==
  <<pc, rev, callsLeft, rawData, lines, idx, stormMap, currentStormId, rawGroups,
    grp, seasonYear, stormName, pointMap, storms, result, returned, allocated>>

InitCoordinate ==
  /\ ParserInit(0)
  /\ coord \in CoordStrings
  /\ degrees = Absent
  /\ AppInit

\* parseCoordinate(coord)
ParseCoordinateCall ==
  /\ degrees = Absent
  /\ degrees' = <<parseCoordinate(coord)>>
  /\ UNCHANGED parserVars
  /\ UNCHANGED <<coord, userStorms, imported, archiveStorms, liveStorms, appStep>>

NextCoordinate == ParseCoordinateCall

SpecCoordinate == InitCoordinate /\ [][NextCoordinate]_vars

(***************************************************************************)
(* The two revisions of parseStandardHurdat on the same archive text: the  *)
(* older one is called first, then the later one on the text it was given. *)
(***************************************************************************)
\* The texts that go to the archive parser.
ArchiveTexts ==
  {text \in SeqsUpTo(ArchiveLines, MaxArchiveLines) \cup SeqsUpTo(MixedLines, MaxMixedLines) :
     /\ SplitLines(text) # <<>>
     /\ ~isAtcf(TrimLine(LinePool[SplitLines(text)[1]]))}

InitRevisions ==
  /\ ParserInit(2)
  /\ rev = 1
  /\ coord = <<>>
  /\ degrees = Absent
  /\ AppInit

\* src/utils/parser.ts is called on an archive text.
CallOlder == CanCall /\ rev = 1 /\ returned = <<>> /\ \E text \in ArchiveTexts : CallWith(text)

\* The later revision takes the place of the older one.
UseLater ==
  /\ pc = "idle" /\ rev = 1 /\ Len(returned) = 1
  /\ rev' = 2
  /\ UNCHANGED <<pc, callsLeft, rawData, lines, idx, stormMap, currentStormId, rawGroups,
                 grp, seasonYear, stormName, pointMap, storms, result, returned, allocated>>
  /\ UNCHANGED otherVars

\* src/unnamed/part_006 is called on the same text.
CallLater == CanCall /\ rev = 2 /\ Len(returned) = 1 /\ CallWith(returned[1].text)

NextRevisions ==
  \/ CallOlder
  \/ UseLater
  \/ CallLater
  \/ StdHeader
  \/ StdDataRow
  \/ StdSkip
  \/ StdFinish
  \/ Return

SpecRevisions == InitRevisions /\ [][NextRevisions]_vars

(***************************************************************************)
(* The App (src/App.tsx): the user storm list, the import handler and the  *)
(* load at mount.  Of a Storm the App reads id and year; ref tells the     *)
(* objects of different parse results apart.                               *)
(***************************************************************************)
\* The number of imports in a row.
MaxImports == 2

\* The number of Storms in an imported batch.
MaxBatch == 2

\* The number of Storms parseHurdat2 makes of the archive, and of the live files.
MaxLoaded == 3

\* Sequences of up to n different elements of S, the empty one included.
ListsOf(S, n) ==
  {<<>>} \cup {list \in SeqsUpTo(S, n) :
                 \A i, j \in DOMAIN list : i # j => list[i] # list[j]}

\* What an importer passes: two parse results of one storm, and another storm.
ImportPool ==
  {[id |-> <<"A", "L", "0", "1", "2", "0", "2", "4">>, year |-> Num(2024), ref |-> 1],
   [id |-> <<"A", "L", "0", "1", "2", "0", "2", "4">>, year |-> Num(2024), ref |-> 2],
   [id |-> <<"A", "L", "0", "2", "2", "0", "2", "4">>, year |-> Num(2024), ref |-> 3]}

\* The batches: any sequence of them, a batch with an id twice included.
Batches == {<<>>} \cup SeqsUpTo(ImportPool, MaxBatch)

\* The Storms of the archive.
ArchivePool ==
  {[id |-> <<"A", "L", "0", "1", "2", "0", "2", "4">>, year |-> Num(2024), ref |-> 11],
   [id |-> <<"A", "L", "0", "2", "2", "0", "2", "4">>, year |-> Num(2024), ref |-> 12],
   [id |-> <<"A", "L", "1", "4", "2", "0", "2", "3">>, year |-> Num(2023), ref |-> 13]}

\* The Storms of the live files: two that the archive has, one of the next
\* season, and the Storm of year NaN that parseAtcf makes of a row whose date
\* is ten characters that are not digits.
LivePool ==
  {[id |-> <<"A", "L", "0", "1", "2", "0", "2", "4">>, year |-> Num(2024), ref |-> 21],
   [id |-> <<"A", "L", "0", "2", "2", "0", "2", "4">>, year |-> Num(2024), ref |-> 22],
   [id |-> <<"E", "P", "0", "1", "2", "0", "2", "5">>, year |-> Num(2025), ref |-> 23],
   [id |-> <<"A", "L", "0", "9", "N", "a", "N">>, year |-> NaN, ref |-> 24]}

ArchiveResults == ListsOf(ArchivePool, MaxLoaded)

LiveResults == ListsOf(LivePool, MaxLoaded)

\* A variant of the import that appends the batch to the whole stored list.
handleDataImportAppend(prev, newStorms) == prev \o newStorms

\* The updater of handleDataImport:
\*   keptOld = prev.filter(s => !newIds.has(s.id)); return [...keptOld, ...newStorms]
handleDataImport(prev, newStorms) ==
  SelectSeq(prev, LAMBDA s : s.id \notin {newStorms[k].id : k \in DOMAIN newStorms}) \o newStorms

\* initApp, C: filteredArchive = archiveStorms.filter(s => !liveIds.has(s.id));
\* combined = [...liveStorms, ...filteredArchive]
Combine(archive, live) ==
  live \o SelectSeq(archive, LAMBDA s : s.id \notin {live[k].id : k \in DOMAIN live})

\* The comparator of the initial sort, as Array.prototype.sort reads it:
\*   if (b.year !== a.year) return b.year - a.year; return b.id.localeCompare(a.id)
\* NaN !== x holds for every x, b.year - a.year is then NaN, and the sort
\* takes a comparator result of NaN as +0.
CompareStorms(a, b) ==
  IF IsNaN(a.year) \/ IsNaN(b.year) THEN 0
  ELSE IF b.year # a.year THEN b.year[1] - a.year[1]
  ELSE localeCompare(b.id, a.id)

\* A stable sort by insertion: a Storm goes after every element that is not
\* greater than it.
RECURSIVE InsertionSort(_)
InsertionSort(list) ==
  LET RECURSIVE InsertStorm(_, _)
      InsertStorm(sorted, s) ==
        IF sorted = <<>> THEN <<s>>
        ELSE IF CompareStorms(sorted[Len(sorted)], s) <= 0
             THEN Append(sorted, s)
             ELSE Append(InsertStorm(SubSeq(sorted, 1, Len(sorted) - 1), s),
                         sorted[Len(sorted)])
  IN  IF list = <<>> THEN <<>>
      ELSE InsertStorm(InsertionSort(SubSeq(list, 1, Len(list) - 1)), list[Len(list)])

\* A stable sort by merging.
RECURSIVE MergeSort(_)
MergeSort(list) ==
  LET RECURSIVE MergeStorms(_, _)
      MergeStorms(left, right) ==
        IF left = <<>> THEN right
        ELSE IF right = <<>> THEN left
        ELSE IF CompareStorms(Head(left), Head(right)) <= 0
             THEN <<Head(left)>> \o MergeStorms(Tail(left), right)
             ELSE <<Head(right)>> \o MergeStorms(left, Tail(right))
  IN  IF Len(list) <= 1 THEN list
      ELSE MergeStorms(MergeSort(SubSeq(list, 1, Len(list) \div 2)),
                       MergeSort(SubSeq(list, Len(list) \div 2 + 1, Len(list))))

\* combined.sort(...).  Array.prototype.sort is stable; with a comparator that
\* is a consistent ordering every algorithm gives the same list.  With a
\* Storm of year NaN, which compares equal to Storms of different years, the
\* comparator is not consistent and the order is the implementation's: the
\* list is the one either algorithm gives.
SortOutcomes(list) == {InsertionSort(list), MergeSort(list)}

\* handleDataImport(newStorms): setUserStorms(prev => ...)
HandleDataImport ==
  /\ Len(imported) < MaxImports
  /\ \E newStorms \in Batches :
       /\ userStorms' = handleDataImport(userStorms, newStorms)
       /\ imported' = Append(imported, newStorms)
  /\ UNCHANGED parserVars
  /\ UNCHANGED <<coord, degrees, archiveStorms, liveStorms, appStep>>

\* executeReset(): setUserStorms([])
ExecuteReset ==
  /\ userStorms' = <<>>
  /\ imported' = <<>>
  /\ UNCHANGED parserVars
  /\ UNCHANGED <<coord, degrees, archiveStorms, liveStorms, appStep>>

\* The App after construction, with the later revision of the parser.
InitApp ==
  /\ ParserInit(0)
  /\ rev = 2
  /\ coord = <<>>
  /\ degrees = Absent
  /\ AppInit

NextImports ==
  \/ HandleDataImport
  \/ ExecuteReset

\* Imports, and resets, from the empty list.
SpecImports == InitApp /\ [][NextImports]_vars

\* initApp: localStorage holds a non-empty array, which becomes the list.
InitAppSaved ==
  /\ appStep = "mounted"
  /\ \E parsed \in ArchiveResults \ {<<>>} : userStorms' = parsed
  /\ appStep' = "saved"
  /\ UNCHANGED parserVars
  /\ UNCHANGED <<coord, degrees, imported, archiveStorms, liveStorms>>

\* initApp, A: archiveStorms = parseHurdat2(archiveText)
InitAppArchive ==
  /\ appStep = "mounted"
  /\ \E parsed \in ArchiveResults : archiveStorms' = parsed
  /\ appStep' = "archive"
  /\ UNCHANGED parserVars
  /\ UNCHANGED <<coord, degrees, userStorms, imported, liveStorms>>

\* initApp, A: the archive cannot be fetched; the list stays as it is.
InitAppFailed ==
  /\ appStep = "mounted"
  /\ appStep' = "failed"
  /\ UNCHANGED parserVars
  /\ UNCHANGED <<coord, degrees, userStorms, imported, archiveStorms, liveStorms>>

\* initApp, B: liveStorms.push(...parseHurdat2(raw)) for every file fetched, or
\* liveStorms = parseHurdat2(PRELOADED_SEASON_DATA)
InitAppLive ==
  /\ appStep = "archive"
  /\ \E parsed \in LiveResults : liveStorms' = parsed
  /\ appStep' = "live"
  /\ UNCHANGED parserVars
  /\ UNCHANGED <<coord, degrees, userStorms, imported, archiveStorms>>

\* initApp, C: combine, sort, setUserStorms(combined)
InitAppCombine ==
  /\ appStep = "live"
  /\ userStorms' \in SortOutcomes(Combine(archiveStorms, liveStorms))
  /\ appStep' = "combined"
  /\ UNCHANGED parserVars
  /\ UNCHANGED <<coord, degrees, imported, archiveStorms, liveStorms>>

NextLoad ==
  \/ InitAppSaved
  \/ InitAppArchive
  \/ InitAppFailed
  \/ InitAppLive
  \/ InitAppCombine

\* The load at mount.
SpecLoad == InitApp /\ [][NextLoad]_vars

(***************************************************************************)
(* The properties checked.  A call has returned when pc = "done": result   *)
(* is then the list the caller receives.                                   *)
(***************************************************************************)
CallDone == pc = "done"

\* The call went to parseStandardHurdat.
ArchiveDone == CallDone /\ lines # <<>> /\ ~isAtcf(TrimLine(LinePool[lines[1]]))

\* The call went to parseAtcf.
OperationalDone == CallDone /\ lines # <<>> /\ isAtcf(TrimLine(LinePool[lines[1]]))

\* The timestamps of a track never decrease.
NonDecreasing(track) ==
  \A k \in 1..(Len(track) - 1) :
     localeCompare(track[k].datetime, track[k + 1].datetime) <= 0

\* Some observation of the track stands before one that was created earlier,
\* that is before one of an earlier row.
Reordered(track) ==
  \E i, j \in DOMAIN track : i < j /\ track[i].ref > track[j].ref

\* Two observations of the track have the same timestamp.
SharesTimestamp(track) ==
  \E i, j \in DOMAIN track : i < j /\ track[i].datetime = track[j].datetime

\* C1: whatever text parseHurdat2 was given, in either format, the track of
\* every Storm it returns is sorted non-decreasing by datetime and the Storm's
\* dataCount is the length of its track.
C1_TracksSortedAndCounted ==
  CallDone =>
    \A k \in DOMAIN result :
       /\ NonDecreasing(result[k].track)
       /\ result[k].dataCount = Len(result[k].track)

\* C1 happens: a returned Storm whose rows came out of chronological order.
C1_Witness ==
  /\ CallDone
  /\ \E k \in DOMAIN result : Reordered(result[k].track) /\ result[k].dataCount >= 2

\* C2: in the result of an operational text no two observations of one Storm
\* have the same timestamp: the rows of a group that carry the same 10-digit
\* date make one observation.
C2_OneObservationPerTimestamp ==
  OperationalDone => \A k \in DOMAIN result : ~SharesTimestamp(result[k].track)

\* C3: in the result of an archive text no Storm's track holds two
\* observations of the same timestamp, also when two data rows under one id
\* carry the same date and time.
C3_ArchiveOnePerTimestamp ==
  ArchiveDone => \A k \in DOMAIN result : ~SharesTimestamp(result[k].track)

\* The key of the group an operational Storm came from: its id without the year.
GroupKeyOf(storm) ==
  SubSeq(storm.id, 1, Len(storm.id) - Len(NumToString(storm.year)))

\* The rows of the text that belong to the group of that key, in input order.
RowsOfGroup(key) ==
  SelectSeq(lines, LAMBDA k : HasGroupKey(Parts(k)) /\ GroupKey(Parts(k)) = key)

\* The timestamp of an operational row with a 10-character date.
RowTimestamp(parts) ==
  parseDate(Substring(parts[3], 0, 8), Substring(parts[3], 8, 10) \o <<"0", "0">>).iso

\* The row is one pass 2 reads, and its date gives the timestamp ts.
RowIsAt(parts, ts) ==
  Len(parts) >= 8 /\ HasTenCharDate(parts) /\ RowTimestamp(parts) = ts

\* The row has a latitude and a longitude: it can create an observation.
RowHasPosition(parts) == Truthy(At(parts, 6)) /\ Truthy(At(parts, 7))

\* Row j of rows contributes to the observation of ts: it is at ts, and it or
\* a row at ts before it has a position (rows at ts before the first row with
\* a position are skipped).
Contributes(rows, j, ts) ==
  /\ RowIsAt(Parts(rows[j]), ts)
  /\ \E i \in 1..j : RowIsAt(Parts(rows[i]), ts) /\ RowHasPosition(Parts(rows[i]))

ThresholdCodes == {34, 50, 64}

\* The wind-threshold code of a row and its four quadrant values NE, SE, SW, NW.
RowCode(parts) == SafeIntAt(parts, 11)

RowQuadrants(parts) ==
  <<SafeIntAt(parts, 13), SafeIntAt(parts, 14), SafeIntAt(parts, 15), SafeIntAt(parts, 16)>>

\* The four quadrant values an observation holds for a threshold.
Slot(radii, code) ==
  IF code = 34 THEN <<radii.ne34, radii.se34, radii.sw34, radii.nw34>>
  ELSE IF code = 50 THEN <<radii.ne50, radii.se50, radii.sw50, radii.nw50>>
  ELSE <<radii.ne64, radii.se64, radii.sw64, radii.nw64>>

\* Row j is the last row of rows that contributes to ts with that code.
LastWithCode(rows, j, ts, code) ==
  /\ Contributes(rows, j, ts)
  /\ RowCode(Parts(rows[j])) = code
  /\ \A i \in (j + 1)..Len(rows) :
        ~(Contributes(rows, i, ts) /\ RowCode(Parts(rows[i])) = code)

\* Every contributing row's quadrants are in the observation p.
AllRadiiSurvive(rows, p) ==
  \A j \in DOMAIN rows :
     (Contributes(rows, j, p.datetime) /\ RowCode(Parts(rows[j])) \in ThresholdCodes)
       => Slot(p.radii[1], RowCode(Parts(rows[j]))) = RowQuadrants(Parts(rows[j]))

\* For each threshold the observation p holds the quadrants of the last
\* contributing row with that code, and zeros when there is none.
LastRadiiSurvive(rows, p) ==
  \A code \in ThresholdCodes :
     IF \E j \in DOMAIN rows : LastWithCode(rows, j, p.datetime, code)
     THEN \A j \in DOMAIN rows :
             LastWithCode(rows, j, p.datetime, code)
               => Slot(p.radii[1], code) = RowQuadrants(Parts(rows[j]))
     ELSE Slot(p.radii[1], code) = <<0, 0, 0, 0>>

\* Two rows contribute to p with the same code and different quadrants.
Overwritten(rows, p) ==
  \E i, j \in DOMAIN rows :
     /\ i < j
     /\ Contributes(rows, i, p.datetime) /\ Contributes(rows, j, p.datetime)
     /\ RowCode(Parts(rows[i])) \in ThresholdCodes
     /\ RowCode(Parts(rows[i])) = RowCode(Parts(rows[j]))
     /\ RowQuadrants(Parts(rows[i])) # RowQuadrants(Parts(rows[j]))

\* C4 as stated: in the operational parser that reads the radii (rev 2), the
\* quadrant values of every row that contributes to a timestamp, with a code
\* of 34, 50 or 64, are in the final observation of that timestamp, whatever
\* rows follow, a later row with the same code included.
C4_EveryRowsRadiiSurvive ==
  (OperationalDone /\ rev = 2) =>
    \A k \in DOMAIN result : \A n \in DOMAIN result[k].track :
       AllRadiiSurvive(RowsOfGroup(GroupKeyOf(result[k])), result[k].track[n])

\* C4 amended: for each threshold 34, 50, 64 the final observation of a
\* timestamp holds the quadrant values of the last contributing row with that
\* code (a later row with the same code replaces an earlier one's values), and
\* zeros when no contributing row has the code.
C4_LastRowsRadiiSurvive ==
  (OperationalDone /\ rev = 2) =>
    \A k \in DOMAIN result : \A n \in DOMAIN result[k].track :
       LastRadiiSurvive(RowsOfGroup(GroupKeyOf(result[k])), result[k].track[n])

\* C4 happens: an observation merged from two rows of the same code with
\* different quadrants, and from a row of another code.
C4_Witness ==
  /\ OperationalDone /\ rev = 2
  /\ \E k \in DOMAIN result : \E n \in DOMAIN result[k].track :
        /\ Overwritten(RowsOfGroup(GroupKeyOf(result[k])), result[k].track[n])
        /\ Slot(result[k].track[n].radii[1], 64) # <<0, 0, 0, 0>>

\* C5: the list one call returns never holds two Storms of the same id, in
\* either format: archive headers that repeat an id, operational rows of one
\* basin and number spread over several years or padded differently.
C5_IdsUnique ==
  CallDone =>
    \A i, j \in DOMAIN result : i < j => result[i].id # result[j].id

\* C6: no returned Storm has an empty track: an archive header without an
\* accepted data row gives no Storm for its id, and an operational group whose
\* rows are all skipped gives no Storm.
C6_NoEmptyTrack ==
  CallDone => \A k \in DOMAIN result : Len(result[k].track) > 0

\* The group has a year after pass 1 in rev 2: a row of at least 8 fields with
\* a 10-character date whose first four characters give a number other than 0.
GroupKeepsYear(rows) ==
  \E j \in DOMAIN rows :
     /\ Len(Parts(rows[j])) >= 8 /\ HasTenCharDate(Parts(rows[j]))
     /\ parseInt(Substring(Parts(rows[j])[3], 0, 4)) # Num(0)

\* C6 happens: an operational text with a group that went through pass 2 and
\* left no Storm, beside a group that left one.
C6_Witness ==
  /\ OperationalDone /\ rev = 2
  /\ Len(result) = 1
  /\ \E g \in DOMAIN rawGroups :
        /\ GroupKeepsYear(rawGroups[g].lines)
        /\ \A k \in DOMAIN result : GroupKeyOf(result[k]) # rawGroups[g].key

\* The string is ten digits.
TenDigits(s) == Len(s) = 10 /\ \A k \in DOMAIN s : IsDigit(s[k])

\* C7: an operational group in which no row has a date field of ten digits
\* gives no Storm (rev 2), also when a row's date field has ten characters
\* that are not all digits: every returned Storm's group has a row whose date
\* field is ten digits.
C7_NoStormWithoutValidDate ==
  (OperationalDone /\ rev = 2) =>
    \A k \in DOMAIN result :
       \E j \in DOMAIN RowsOfGroup(GroupKeyOf(result[k])) :
          /\ Len(Parts(RowsOfGroup(GroupKeyOf(result[k]))[j])) >= 3
          /\ TenDigits(Parts(RowsOfGroup(GroupKeyOf(result[k]))[j])[3])

\* The text is one header followed by data rows that each have a date, a
\* latitude and a longitude.
RowAccepted(parts) ==
  /\ ~isHeader(parts)
  /\ Len(parts) >= 6
  /\ parts[1] # <<>> /\ parts[5] # <<>> /\ parts[6] # <<>>

OneStormBlob ==
  /\ Len(lines) >= 2
  /\ isHeader(Parts(lines[1]))
  /\ \A k \in 2..Len(lines) : RowAccepted(Parts(lines[k]))

\* The observation is the one row k of the text made: the k-th object the
\* call created, with the row's timestamp and coordinates as written.
ObservationOfRow(p, k) ==
  /\ p.ref = allocated - Len(lines) + k
  /\ p.datetime = parseDate(Parts(lines[k])[1], Parts(lines[k])[2]).iso
  /\ p.originalLat = Parts(lines[k])[5]
  /\ p.originalLon = Parts(lines[k])[6]

\* C8: an archive text of one header and N data rows, each with a date, a
\* latitude and a longitude, gives exactly one Storm with exactly N
\* observations, one per row, in chronological order whatever the order of
\* the rows in the text.
C8_OneStormOfAllRows ==
  (ArchiveDone /\ OneStormBlob) =>
    /\ Len(result) = 1
    /\ result[1].id = Parts(lines[1])[1]
    /\ Len(result[1].track) = Len(lines) - 1
    /\ NonDecreasing(result[1].track)
    /\ \A k \in 2..Len(lines) :
          \E n \in DOMAIN result[1].track : ObservationOfRow(result[1].track[n], k)

\* C8 happens: a header and two rows that are not in chronological order.
C8_Witness ==
  /\ ArchiveDone /\ OneStormBlob
  /\ Len(lines) = 3
  /\ Reordered(result[1].track)

\* The data rows of an archive text that stand after a header and have a
\* date, a latitude and a longitude: the rows that are not to be skipped.
RowsToKeep ==
  {k \in DOMAIN lines :
     RowAccepted(Parts(lines[k])) /\ \E h \in 1..(k - 1) : isHeader(Parts(lines[h]))}

\* The observations of a list of Storms, each by its place.
ObservationsOf(list) ==
  UNION {{<<k, n>> : n \in DOMAIN list[k].track} : k \in DOMAIN list}

\* C10: parseHurdat2 never throws; a text that is empty or white space
\* returns the empty list; and an archive row that is skipped stops nothing:
\* every data row after a header that has a date, a latitude and a longitude
\* has its observation in the result, whatever rows came before it.
C10_NeverThrows ==
  /\ pc # "threw"
  /\ (CallDone /\ lines = <<>>) => result = <<>>
  /\ ArchiveDone => Cardinality(ObservationsOf(result)) = Cardinality(RowsToKeep)

\* C10 happens: an archive text whose second line is a row that is skipped
\* for its missing columns and whose third line, with a wind that is not a
\* number and the pressure -999, is kept with both fields 0.
C10_Witness ==
  /\ ArchiveDone
  /\ Len(lines) = 3
  /\ isHeader(Parts(lines[1]))
  /\ ~isHeader(Parts(lines[2])) /\ ~RowAccepted(Parts(lines[2]))
  /\ IsNaN(parseInt(At(Parts(lines[3]), 6)))
  /\ Len(result) = 1 /\ Len(result[1].track) = 1
  /\ result[1].track[1].maxWind = 0 /\ result[1].track[1].minPressure = 0

\* A list of Storms without the identity of its objects: what two lists have
\* in common when they are structurally identical.
Structure(list) ==
  [k \in DOMAIN list |->
     [list[k] EXCEPT !.ref = 0,
                     !.track = [n \in DOMAIN @ |-> [@[n] EXCEPT !.ref = 0]]]]

\* The Storm and observation objects a list holds.
ObjectsOf(list) ==
  {list[k].ref : k \in DOMAIN list}
    \cup UNION {{list[k].track[n].ref : n \in DOMAIN list[k].track} : k \in DOMAIN list}

\* C9: parseHurdat2 keeps no state between calls: two calls on the same text,
\* whatever calls were made in between, return structurally identical lists
\* (ids, names, years, counts and every field of every observation), and the
\* lists of two different calls have no Storm and no observation in common.
C9_CallsIndependent ==
  \A i, j \in DOMAIN returned :
     i < j =>
       /\ returned[i].text = returned[j].text
            => Structure(returned[i].result) = Structure(returned[j].result)
       /\ ObjectsOf(returned[i].result) \cap ObjectsOf(returned[j].result) = {}

\* C9 happens: a text parsed twice with a call on another text of the same
\* format and the same storm id in between, each call returning a Storm.
C9_Witness ==
  /\ Len(returned) = 3
  /\ returned[1].text = returned[3].text
  /\ returned[1].text # returned[2].text
  /\ returned[1].result # <<>> /\ returned[2].result # <<>>
  /\ returned[1].result[1].id = returned[2].result[1].id
  /\ Structure(returned[1].result) # Structure(returned[2].result)

(***************************************************************************)
(* C11: the grammar is chosen once, from the first kept line               *)
(***************************************************************************)

\* The lines of the text that are not blank once trimmed, in input order.
KeptLines == SelectSeq(rawData, LAMBDA k : \E j \in DOMAIN LinePool[k] : Trim(LinePool[k][j]) # <<>>)

\* A line that begins with two letters, a comma, one or two digits and a
\* comma, white space around the commas allowed.
StartsLikeOperational(line) ==
  /\ Len(line) > 2
  /\ Len(Trim(line[1])) = 2
  /\ \A k \in 1..2 : IsLetter(Trim(line[1])[k])
  /\ Len(Trim(line[2])) \in 1..2
  /\ \A k \in DOMAIN Trim(line[2]) : IsDigit(Trim(line[2])[k])

\* The positions of parseAtcf.
InAtcf == pc \in {"group", "forEach", "pass1", "pass2"}

\* The line is in a bucket of parseAtcf, or has no basin and number to be
\* bucketed by.
Bucketed(k) ==
  HasGroupKey(Parts(k)) => \E g \in DOMAIN rawGroups : k \in Range(rawGroups[g].lines)

\* C11: parseHurdat2 chooses the grammar once per call from the first line
\* that is not empty once trimmed: the operational parser runs exactly when
\* that line starts with two letters, a comma, one or two digits and a
\* comma, the archive parser otherwise; the chosen parser alone then goes
\* through every kept line and its list is the result, whatever the later
\* lines look like.
C11_GrammarFromFirstLine ==
  /\ pc = "std" => KeptLines # <<>> /\ ~StartsLikeOperational(LinePool[KeptLines[1]])
  /\ InAtcf => KeptLines # <<>> /\ StartsLikeOperational(LinePool[KeptLines[1]])
  /\ (pc = "std" \/ InAtcf) => lines = KeptLines /\ idx <= Len(lines) + 1
  /\ (CallDone /\ KeptLines # <<>>) =>
        IF StartsLikeOperational(LinePool[KeptLines[1]])
        THEN /\ stormMap = <<>> /\ result = storms /\ grp = Len(rawGroups) + 1
             /\ \A k \in DOMAIN KeptLines : Bucketed(KeptLines[k])
        ELSE /\ rawGroups = <<>> /\ result = StdResult(stormMap)
             /\ idx = Len(KeptLines) + 1

\* C11 witness: a call whose first line is operational and whose second is
\* an archive header has ended, and the header made no Storm.
C11_Witness ==
  /\ CallDone /\ Len(KeptLines) = 2
  /\ StartsLikeOperational(LinePool[KeptLines[1]])
  /\ isHeader(Parts(KeptLines[2]))
  /\ Len(result) = 1

(***************************************************************************)
(* C12: the name of an operational Storm                                   *)
(***************************************************************************)

\* The tokens the rows have in the two name columns (27 and 23).
NameTokens(rows) ==
  {At(Parts(rows[j]), c) : j \in DOMAIN rows, c \in {23, 27}} \ {Undefined}

\* The tokens among them that are not numeric and not generic.
UsableTokens(rows) == {token \in NameTokens(rows) : UsableName(token)}

\* "STORM <number>" for the group of that key.
PlaceholderName(key) == s_STORM \o <<" ">> \o SubSeq(key, 3, Len(key))

\* C12: the name of every Storm the operational parser (the later revision,
\* which reads both name columns of every row) emits is a token of
\* a name column of one of its rows that is not numeric and not generic, or
\* is "STORM <number>" when no row has such a token; a generic or numeric
\* token is never the name.
C12_NameIsUsableOrPlaceholder ==
  (OperationalDone /\ rev = 2) =>
    \A s \in DOMAIN result :
       \/ result[s].name \in UsableTokens(RowsOfGroup(GroupKeyOf(result[s])))
       \/ /\ UsableTokens(RowsOfGroup(GroupKeyOf(result[s]))) = {}
          /\ result[s].name = PlaceholderName(GroupKeyOf(result[s]))

(***************************************************************************)
(* C13: wind and pressure are never negative                               *)
(***************************************************************************)

\* C13: in every observation of every emitted track, of either format,
\* maxWind and minPressure are integers that are not negative (the pressure
\* -999 and every absent or unparseable value are stored as 0).
C13_WindAndPressureNonNegative ==
  CallDone =>
    \A o \in ObservationsOf(result) :
       /\ result[o[1]].track[o[2]].maxWind \in Nat
       /\ result[o[1]].track[o[2]].minPressure \in Nat

(***************************************************************************)
(* C14: what an archive header and an archive row become                   *)
(***************************************************************************)

\* Line h is the first header of the text with its id: the one that creates
\* the Storm.
CreatingHeader(h) ==
  /\ isHeader(Parts(lines[h]))
  /\ \A g \in 1..(h - 1) :
        isHeader(Parts(lines[g])) => Parts(lines[g])[1] # Parts(lines[h])[1]

\* The number written in characters 5 to 8 of an id.
YearOfId(id) ==
  1000 * DigitVal(id[5]) + 100 * DigitVal(id[6]) + 10 * DigitVal(id[7]) + DigitVal(id[8])

\* The Storm is the one the header line makes: id, name, year.
StormOfHeader(storm, parts) ==
  /\ storm.id = parts[1]
  /\ storm.name = IF Len(parts) >= 2 /\ parts[2] # <<>> THEN parts[2] ELSE s_UNNAMED
  /\ storm.year = Num(YearOfId(parts[1]))

\* The last header before line k.
HeaderBefore(k) ==
  CHOOSE h \in 1..(k - 1) :
     isHeader(Parts(lines[h])) /\ \A g \in (h + 1)..(k - 1) : ~isHeader(Parts(lines[g]))

\* The observation holds the columns of the data row in their order: date,
\* time, record flag, status, latitude, longitude, wind, pressure.
ColumnsOfRow(p, parts) ==
  /\ p.date = parseDate(parts[1], parts[2]).formatted
  /\ p.datetime = parseDate(parts[1], parts[2]).iso
  /\ p.time = parts[2]
  /\ p.recordIdentifier = parts[3]
  /\ p.status = parts[4]
  /\ p.originalLat = parts[5] /\ p.lat = parseCoordinate(parts[5])
  /\ p.originalLon = parts[6] /\ p.lon = parseCoordinate(parts[6])
  /\ p.maxWind = IntOrZero(At(parts, 6))
  /\ p.minPressure = Pressure(At(parts, 7))

\* C14: in the result of an archive text every Storm has the id of the
\* header that created it, verbatim, that header's second field as its name
\* ("UNNAMED" when it is blank) and the integer of characters 5 to 8 of the
\* id as its year; and every data row that is kept has, in the Storm of the
\* header before it, an observation whose date, time, record flag, status,
\* latitude, longitude, wind and pressure are the row's columns 1 to 8 in
\* that order.
C14_HeaderAndColumns ==
  ArchiveDone =>
    /\ \A s \in DOMAIN result :
          \E h \in DOMAIN lines :
             CreatingHeader(h) /\ StormOfHeader(result[s], Parts(lines[h]))
    /\ \A k \in RowsToKeep :
          \E s \in DOMAIN result : \E n \in DOMAIN result[s].track :
             /\ result[s].id = Parts(lines[HeaderBefore(k)])[1]
             /\ ColumnsOfRow(result[s].track[n], Parts(lines[k]))

\* C14 happens: the header AL092011, IRENE with two rows gives one Storm
\* AL092011 / IRENE / 2011 of two observations, the first with the record
\* flag L and the wind 75.
C14_Witness ==
  /\ ArchiveDone
  /\ Len(result) = 1
  /\ result[1].id = <<"A", "L", "0", "9", "2", "0", "1", "1">>
  /\ result[1].name = <<"I", "R", "E", "N", "E">>
  /\ result[1].year = Num(2011)
  /\ Len(result[1].track) = 2
  /\ result[1].track[1].recordIdentifier = <<"L">>
  /\ result[1].track[1].maxWind = 75

(***************************************************************************)
(* C15: column 23 names a Storm only when column 27 never does             *)
(***************************************************************************)

\* The usable names the rows that pass 1 reads have in column 27.
PrimaryNames(rows) ==
  {At(Parts(rows[j]), 27) :
     j \in {i \in DOMAIN rows : Len(Parts(rows[i])) >= 28 /\ HasTenCharDate(Parts(rows[i]))}}
    \cap UsableTokens(rows)

\* C15: in the identity pass of the operational parser (the later revision)
\* column 23 gives the name only when column 27 gives no usable name in any
\* row of the group: when some row has a usable name in column 27, the name
\* of the Storm is such a name, also when a later row has an unusable
\* column 27 and a usable column 23.
C15_PrimaryNameWins ==
  (OperationalDone /\ rev = 2) =>
    \A s \in DOMAIN result :
       PrimaryNames(RowsOfGroup(GroupKeyOf(result[s]))) # {}
         => result[s].name \in PrimaryNames(RowsOfGroup(GroupKeyOf(result[s])))

(***************************************************************************)
(* C16: the season year of an operational group                            *)
(***************************************************************************)

\* Row j is the first row of rows, in input order, that has at least 8
\* fields and ten digits as its date.
FirstDatedRow(rows, j) ==
  /\ Len(Parts(rows[j])) >= 8 /\ TenDigits(Parts(rows[j])[3])
  /\ \A i \in 1..(j - 1) :
        ~(Len(Parts(rows[i])) >= 8 /\ TenDigits(Parts(rows[i])[3]))

\* The Storm has the year and the id the group gets from that date: the
\* integer of its first four digits, and the key followed by those digits.
StormOfDate(storm, key, date) ==
  /\ storm.year = Num(1000 * DigitVal(date[1]) + 100 * DigitVal(date[2])
                        + 10 * DigitVal(date[3]) + DigitVal(date[4]))
  /\ storm.id = key \o SubSeq(date, 1, 4)

\* C16: every Storm the operational parser (the later revision) emits is
\* the Storm of a group whose season year is the first four digits of the
\* first row, in input order, whose date field is ten digits, whatever the
\* rows after it hold: its year is that integer and its id is the group key
\* (basin and two-digit number) followed by that four-digit year.
C16_YearFromFirstDatedRow ==
  (OperationalDone /\ rev = 2) =>
    \A s \in DOMAIN result :
       \E g \in DOMAIN rawGroups : \E j \in DOMAIN rawGroups[g].lines :
          /\ FirstDatedRow(rawGroups[g].lines, j)
          /\ StormOfDate(result[s], rawGroups[g].key, Parts(rawGroups[g].lines[j])[3])

(***************************************************************************)
(* C17: the core fields of a merged observation                            *)
(***************************************************************************)

\* Row j is the row of rows that creates the observation of ts: the first
\* row at ts that has a latitude and a longitude.
CreatesObservation(rows, j, ts) ==
  /\ RowIsAt(Parts(rows[j]), ts) /\ RowHasPosition(Parts(rows[j]))
  /\ \A i \in 1..(j - 1) :
        ~(RowIsAt(Parts(rows[i]), ts) /\ RowHasPosition(Parts(rows[i])))

\* The core fields of the observation are those of the row: status,
\* coordinates parsed and raw, wind, pressure, date and time.
CoreOfRow(p, parts) ==
  /\ p.status = (IF Len(parts) >= 11 THEN parts[11] ELSE <<>>)
  /\ p.originalLat = parts[7] /\ p.lat = parseCoordinate(parts[7])
  /\ p.originalLon = parts[8] /\ p.lon = parseCoordinate(parts[8])
  /\ p.maxWind = IntOrZero(At(parts, 8))
  /\ p.minPressure = Pressure(At(parts, 9))
  /\ p.date = SubSeq(parts[3], 1, 4) \o <<"-">> \o SubSeq(parts[3], 5, 6)
                \o <<"-">> \o SubSeq(parts[3], 7, 8)
  /\ p.time = SubSeq(parts[3], 9, 10) \o <<"0", "0">>

\* A row after row j is at ts too, has a position, and differs from row j
\* in its wind.
LaterRowDiffers(rows, j, ts) ==
  \E i \in (j + 1)..Len(rows) :
     /\ RowIsAt(Parts(rows[i]), ts) /\ RowHasPosition(Parts(rows[i]))
     /\ At(Parts(rows[i]), 8) # At(Parts(rows[j]), 8)

\* C17: in the operational parser that merges rows (the later revision) the
\* core fields of every observation -- status, latitude, longitude, the raw
\* coordinate strings, wind, pressure, date, time -- are those of the first
\* row of its group that created it; no later row of the same timestamp
\* changes them.
C17_CoreFieldsOfFirstRow ==
  (OperationalDone /\ rev = 2) =>
    \A s \in DOMAIN result : \A n \in DOMAIN result[s].track :
       \E j \in DOMAIN RowsOfGroup(GroupKeyOf(result[s])) :
          /\ CreatesObservation(RowsOfGroup(GroupKeyOf(result[s])), j,
                                result[s].track[n].datetime)
          /\ CoreOfRow(result[s].track[n], Parts(RowsOfGroup(GroupKeyOf(result[s]))[j]))

\* C17 happens: an observation created by one row and merged with a later
\* row of the same timestamp that has a position and another wind.
C17_Witness ==
  /\ OperationalDone /\ rev = 2
  /\ \E s \in DOMAIN result : \E n \in DOMAIN result[s].track :
        \E j \in DOMAIN RowsOfGroup(GroupKeyOf(result[s])) :
           /\ CreatesObservation(RowsOfGroup(GroupKeyOf(result[s])), j,
                                 result[s].track[n].datetime)
           /\ LaterRowDiffers(RowsOfGroup(GroupKeyOf(result[s])), j,
                              result[s].track[n].datetime)

(***************************************************************************)
(* C18: a row writes the quadrants of its own threshold only               *)
(***************************************************************************)

\* The quadrants of threshold code that an observation holds after a row of
\* pass 2, given those it held before (hadSlot) and whether the row merges
\* into it: the row's four values when the row has that code, the former
\* values otherwise.
SlotAfterRow(hadSlot, merges, parts, code) ==
  IF merges /\ RowCode(parts) = code THEN RowQuadrants(parts) ELSE hadSlot

\* Observation k of the map before the row keeps, after it, all quadrants
\* but those of the row's threshold, which only a row of its timestamp sets.
OldObservationFramed(before, after, k, parts) ==
  \A code \in ThresholdCodes :
     Slot(after[k].radii[1], code) =
       SlotAfterRow(Slot(before[k].radii[1], code),
                    RowIsAt(parts, before[k].datetime), parts, code)

\* An observation the row creates starts from zeros and holds the row's
\* quadrants in the row's threshold only.
NewObservationFramed(before, after, parts) ==
  Len(after) > Len(before) =>
    \A code \in ThresholdCodes :
       Slot(after[Len(after)].radii[1], code) =
         SlotAfterRow(<<0, 0, 0, 0>>, TRUE, parts, code)

\* C18: a step of pass 2 of the operational parser (the later revision) on
\* a row with the code c in {34, 50, 64} writes the row's four quadrant
\* values (columns 13 to 16) into the quadrants of threshold c of the
\* observation of the row's timestamp, and changes none of the other eight
\* and nothing in any other observation; a row with any other code changes
\* none of the twelve.
C18_OnlyOwnThresholdWritten ==
  [][(pc = "pass2" /\ rev = 2 /\ idx' = idx + 1) =>
       /\ Len(pointMap') >= Len(pointMap)
       /\ \A k \in DOMAIN pointMap :
             OldObservationFramed(pointMap, pointMap', k, Parts(GroupLines[idx]))
       /\ NewObservationFramed(pointMap, pointMap', Parts(GroupLines[idx]))]_vars

\* C18 happens: two rows of one timestamp with the codes 34 and 64 gave one
\* observation that holds both sets of quadrants, and zeros for 50.
C18_Witness ==
  /\ OperationalDone /\ rev = 2
  /\ \E s \in DOMAIN result :
        /\ Len(result[s].track) = 1
        /\ Slot(result[s].track[1].radii[1], 34) = <<150, 120, 100, 130>>
        /\ Slot(result[s].track[1].radii[1], 50) = <<0, 0, 0, 0>>
        /\ Slot(result[s].track[1].radii[1], 64) = <<30, 25, 20, 28>>

(***************************************************************************)
(* C19: the rows pass 2 skips                                              *)
(***************************************************************************)

\* The row's timestamp has an observation in the map.
TimestampKnown(map, parts) ==
  \E k \in DOMAIN map : RowIsAt(parts, map[k].datetime)

\* The row is merged into the observation of its timestamp: quadrants of its
\* threshold and, when positive, its radius of maximum wind.
MergedInto(before, after, parts) ==
  \A k \in DOMAIN before :
     RowIsAt(parts, before[k].datetime) =>
       /\ \A code \in ThresholdCodes :
             RowCode(parts) = code => Slot(after[k].radii[1], code) = RowQuadrants(parts)
       /\ after[k].rmw = IF SafeIntAt(parts, 19) > 0 THEN <<SafeIntAt(parts, 19)>>
                         ELSE before[k].rmw

\* C19: a step of pass 2 of the operational parser (the later revision)
\* leaves the map of observations as it is when the row's date field is not
\* a 10-character date, and when the row lacks a latitude or a longitude
\* and its timestamp has no observation yet; a row that lacks a latitude or
\* a longitude and whose timestamp has an observation is not skipped: its
\* quadrants and its radius of maximum wind are merged into that
\* observation.
C19_SkippedRowsChangeNothing ==
  [][(pc = "pass2" /\ rev = 2 /\ idx' = idx + 1) =>
       /\ ~HasTenCharDate(Parts(GroupLines[idx])) => pointMap' = pointMap
       /\ (~RowHasPosition(Parts(GroupLines[idx]))
             /\ ~TimestampKnown(pointMap, Parts(GroupLines[idx])))
            => pointMap' = pointMap
       /\ (~RowHasPosition(Parts(GroupLines[idx]))
             /\ TimestampKnown(pointMap, Parts(GroupLines[idx])))
            => /\ Len(pointMap') = Len(pointMap)
               /\ MergedInto(pointMap, pointMap', Parts(GroupLines[idx]))]_vars

\* C19 happens: a row without latitude and longitude, after a row of its
\* timestamp, left its quadrants of threshold 34 and its radius of maximum
\* wind 30 in the observation the first row created.
C19_Witness ==
  /\ OperationalDone /\ rev = 2
  /\ \E s \in DOMAIN result :
        /\ Len(result[s].track) = 1
        /\ result[s].track[1].originalLat = <<"3", "4", "4", "N">>
        /\ Slot(result[s].track[1].radii[1], 34) = <<90, 0, 0, 0>>
        /\ result[s].track[1].rmw = <<30>>

(***************************************************************************)
(* C20: a date of fewer than 8 characters gives no observation             *)
(***************************************************************************)

\* C20: no observation of any emitted track, of either format, has the
\* empty timestamp that parseDate returns for a date of fewer than 8
\* characters: the parser skips every row with such a date, an archive row
\* with a short date that is not empty included.
C20_NoEmptyTimestamp ==
  CallDone =>
    \A o \in ObservationsOf(result) : result[o[1]].track[o[2]].datetime # <<>>

(***************************************************************************)
(* C21: a header of an id already seen                                     *)
(***************************************************************************)

\* The Storm of that id in the map is the Storm of the first header of the
\* text with that id.
KeepsFirstHeader(map, id) ==
  \E h \in DOMAIN lines :
     /\ CreatingHeader(h) /\ Parts(lines[h])[1] = id
     /\ StormOfHeader(map[StormIndex(map, id)], Parts(lines[h]))

\* C21: a step of the archive parser on a header line whose id is already
\* in the storm map creates no Storm and leaves every Storm of the map, its
\* track, name and year included, as it is; it only moves the cursor to
\* that id; and the name and year of the Storm stay those of the first
\* header with its id.
C21_RepeatedHeaderOnlyMovesCursor ==
  [][(pc = "std" /\ idx' = idx + 1 /\ isHeader(Parts(lines[idx]))
        /\ HasStorm(stormMap, Parts(lines[idx])[1])) =>
       /\ stormMap' = stormMap
       /\ currentStormId' = Parts(lines[idx])[1]
       /\ KeepsFirstHeader(stormMap', Parts(lines[idx])[1])]_vars

\* C21 happens: a header with a name, a data row, and a header of the same
\* id with another name gave one Storm with the first name and the row.
C21_Witness ==
  /\ ArchiveDone /\ Len(lines) = 3
  /\ isHeader(Parts(lines[1])) /\ isHeader(Parts(lines[3]))
  /\ Parts(lines[1])[1] = Parts(lines[3])[1]
  /\ Parts(lines[1])[2] # Parts(lines[3])[2]
  /\ Len(result) = 1 /\ Len(result[1].track) = 1
  /\ result[1].name = Parts(lines[1])[2]

(***************************************************************************)
(* C22: the wind radii of an archive observation                           *)
(***************************************************************************)

\* The twelve radius values of an archive row, columns 8 to 19, as parsed.
RowRadiusValues(parts) == [c \in 8..19 |-> IntOrZero(At(parts, c))]

\* The row has at least 20 fields and a positive radius value.
RowHasRadii(parts) ==
  Len(parts) >= 20 /\ \E c \in 8..19 : RowRadiusValues(parts)[c] > 0

\* The structure holds the twelve values of the row, threshold by threshold.
RadiiOfValues(radii, v) ==
  /\ Slot(radii, 34) = <<v[8], v[9], v[10], v[11]>>
  /\ Slot(radii, 50) = <<v[12], v[13], v[14], v[15]>>
  /\ Slot(radii, 64) = <<v[16], v[17], v[18], v[19]>>

\* The observation the step appended: the last of the track under the cursor.
AppendedPoint(map, id) ==
  map[StormIndex(map, id)].track[Len(map[StormIndex(map, id)].track)]

\* C22: the observation a step of the archive parser (the later revision)
\* appends for a data row has wind radii exactly when the row has at least
\* 20 fields and one of its twelve radius values (columns 8 to 19) is
\* positive; the structure then holds the row's twelve parsed values, and
\* otherwise the field is absent, never a structure of zeros.
C22_RadiiOnlyWhenPositive ==
  [][(pc = "std" /\ rev = 2 /\ allocated' = allocated + 1 /\ idx' = idx + 1
        /\ ~isHeader(Parts(lines[idx]))) =>
       IF RowHasRadii(Parts(lines[idx]))
       THEN /\ AppendedPoint(stormMap', currentStormId).radii # Absent
            /\ RadiiOfValues(AppendedPoint(stormMap', currentStormId).radii[1],
                             RowRadiusValues(Parts(lines[idx])))
       ELSE AppendedPoint(stormMap', currentStormId).radii = Absent]_vars

\* C22 happens: a Storm with an observation of a row with positive radius
\* values, which has them, and one of a row of 21 fields whose twelve values
\* are all 0, which has no radii.
C22_Witness ==
  /\ ArchiveDone /\ rev = 2
  /\ \E s \in DOMAIN result : \E m, n \in DOMAIN result[s].track :
        /\ result[s].track[m].radii # Absent
        /\ Slot(result[s].track[m].radii[1], 34) = <<90, 60, 0, 0>>
        /\ result[s].track[n].radii = Absent
        /\ result[s].track[n].maxWind = 80

(***************************************************************************)
(* C23: operational rows are grouped by basin and number                   *)
(***************************************************************************)

\* Two lines have the same basin, whatever its case, and the same cyclone
\* number, however it is written.
SameBasinAndNumber(k, m) ==
  /\ ToUpperCase(Parts(k)[1]) = ToUpperCase(Parts(m)[1])
  /\ parseInt(Parts(k)[2]) = parseInt(Parts(m)[2])

\* The lines of the text with the basin and number of line m, in input order.
RowsLike(m) ==
  SelectSeq(lines, LAMBDA k : HasGroupKey(Parts(k)) /\ SameBasinAndNumber(k, m))

\* The basin in upper case followed by the number padded to two digits.
PaddedKey(parts) ==
  ToUpperCase(parts[1])
    \o (IF parseInt(parts[2])[1] < 10 THEN <<"0">> ELSE <<>>)
    \o NatToString(parseInt(parts[2])[1])

\* The observation was made from that row: the row's timestamp and raw
\* coordinates (rev 1 reads them three columns later in its custom format).
MadeFromRow(p, parts) ==
  \/ /\ RowIsAt(parts, p.datetime) /\ RowHasPosition(parts)
     /\ p.originalLat = parts[7] /\ p.originalLon = parts[8]
  \/ /\ rev = 1 /\ Len(parts) >= 10 /\ ~HasTenCharDate(parts)
     /\ Len(parts[6]) >= 10
     /\ p.datetime = parseDate(Substring(parts[6], 0, 8),
                               Substring(parts[6], 8, 10) \o <<"0", "0">>).iso
     /\ p.originalLat = parts[9] /\ p.originalLon = parts[10]

\* The Storm is the Storm of group g: its id begins with the group's key and
\* each of its observations was made from a row of the group.
StormOfGroup(storm, g) ==
  /\ Len(storm.id) >= Len(rawGroups[g].key)
  /\ SubSeq(storm.id, 1, Len(rawGroups[g].key)) = rawGroups[g].key
  /\ \A n \in DOMAIN storm.track :
        \E j \in DOMAIN rawGroups[g].lines :
           MadeFromRow(storm.track[n], Parts(rawGroups[g].lines[j]))

\* Each Storm of the list is the Storm of a group of its own, the groups in
\* the order of the Storms.
OneGroupEach(list) ==
  \E f \in [DOMAIN list -> DOMAIN rawGroups] :
     /\ \A s, u \in DOMAIN list : s < u => f[s] < f[u]
     /\ \A s \in DOMAIN list : StormOfGroup(list[s], f[s])

EndsInDirection(s) ==
  /\ s # Undefined /\ Trim(s) # <<>>
  /\ ToUpperChar(Trim(s)[Len(Trim(s))]) \in {"N", "S", "E", "W"}

DirectionOf(s) == ToUpperChar(Trim(s)[Len(Trim(s))])

\* What stands before the direction letter.
PrefixOf(s) == SubSeq(Trim(s), 1, Len(Trim(s)) - 1)

\* The distance of a value from 0.
Magnitude(v) == IF v < 0 THEN 0 - v ELSE v

\* The prefix is digits, a point and one digit.
OneDecimal(prefix) ==
  /\ Len(prefix) >= 3
  /\ AllDigits(SubSeq(prefix, 1, Len(prefix) - 2))
  /\ prefix[Len(prefix) - 1] = "."
  /\ IsDigit(prefix[Len(prefix)])

\* The prefix does not begin, white space and a sign apart, with a digit or
\* with a point and a digit: it cannot be parsed as a number.
Unparseable(prefix) ==
  /\ DigitPrefix(Unsigned(TrimStart(prefix))) = <<>>
  /\ FractionDigits(Unsigned(TrimStart(prefix))) = <<>>

\* C24: parseCoordinate, in tenths of a degree: for a string that ends in
\* N, S, E or W, a prefix of digits without a decimal point is that number
\* divided by 10 ("221N" is 22.1, 221 tenths) and a prefix with a decimal
\* point is taken as it is ("22.1N" is 22.1); the result is never positive
\* for S and W and never negative for N and E; an empty or unparseable
\* text gives 0.
C24_CoordinateSignedTenths ==
  degrees # Absent =>
    /\ (coord = Undefined \/ Trim(coord) = <<>>) => degrees[1] = 0
    /\ EndsInDirection(coord) =>
         /\ AllDigits(PrefixOf(coord))
              => Magnitude(degrees[1]) = DigitsValue(PrefixOf(coord))
         /\ OneDecimal(PrefixOf(coord))
              => Magnitude(degrees[1]) =
                   10 * DigitsValue(SubSeq(PrefixOf(coord), 1, Len(PrefixOf(coord)) - 2))
                     + DigitVal(PrefixOf(coord)[Len(PrefixOf(coord))])
         /\ Unparseable(PrefixOf(coord)) => degrees[1] = 0
         /\ DirectionOf(coord) \in {"S", "W"} => degrees[1] <= 0
         /\ DirectionOf(coord) \in {"N", "E"} => degrees[1] >= 0

(***************************************************************************)
(* C25: the radius of maximum wind of a merged observation                 *)
(***************************************************************************)

\* The radius-of-maximum-wind column of a row: 0 when it is absent or not a
\* number.
RowRmw(parts) == SafeIntAt(parts, 19)

\* Row j is the last row of rows that contributes to ts with a positive
\* radius of maximum wind.
LastWithRmw(rows, j, ts) ==
  /\ Contributes(rows, j, ts) /\ RowRmw(Parts(rows[j])) > 0
  /\ \A i \in (j + 1)..Len(rows) :
        ~(Contributes(rows, i, ts) /\ RowRmw(Parts(rows[i])) > 0)

\* The observation p has the radius of the last such row, and none when
\* there is no such row.
LastRmwSurvives(rows, p) ==
  IF \E j \in DOMAIN rows : LastWithRmw(rows, j, p.datetime)
  THEN \A j \in DOMAIN rows :
          LastWithRmw(rows, j, p.datetime) => p.rmw = <<RowRmw(Parts(rows[j]))>>
  ELSE p.rmw = Absent

HeaderStandsBefore(k) == \E h \in 1..(k - 1) : isHeader(Parts(lines[h]))

\* From before to after, the track of the Storm of that id got one more
\* observation at its end, and every other Storm is as it was.
OnlyTrackOfGrew(before, after, id) ==
  /\ Len(after) = Len(before)
  /\ \E k \in DOMAIN before : before[k].id = id
  /\ \A k \in DOMAIN before :
        IF before[k].id = id
        THEN /\ Len(after[k].track) = Len(before[k].track) + 1
             /\ SubSeq(after[k].track, 1, Len(before[k].track)) = before[k].track
        ELSE after[k] = before[k]

\* C26: in a step of the archive parser on a data line, an observation that
\* is appended goes to the track of the Storm of the last header line
\* before it and the other Storms stay as they are; a data line before the
\* first header line adds nothing; and a cursor that is set names a Storm
\* of the storm map.
C26_RowGoesToCursorStorm ==
  [][(pc = "std" /\ idx' = idx + 1) =>
       /\ (~isHeader(Parts(lines[idx])) /\ stormMap' # stormMap) =>
             /\ HeaderStandsBefore(idx)
             /\ OnlyTrackOfGrew(stormMap, stormMap', Parts(lines[HeaderBefore(idx)])[1])
       /\ (~isHeader(Parts(lines[idx])) /\ ~HeaderStandsBefore(idx)) =>
             stormMap' = stormMap
       /\ currentStormId' # Null => HasStorm(stormMap', currentStormId')]_vars

\* C26 happens: two headers of different ids and a data row gave one Storm,
\* that of the second header, with the row's observation.
C26_Witness ==
  /\ ArchiveDone /\ Len(lines) = 3
  /\ isHeader(Parts(lines[1])) /\ isHeader(Parts(lines[2]))
  /\ Parts(lines[1])[1] # Parts(lines[2])[1]
  /\ Len(result) = 1 /\ Len(result[1].track) = 1
  /\ result[1].id = Parts(lines[2])[1]

(***************************************************************************)
(* C27: the two revisions of the archive parser agree                      *)
(***************************************************************************)

\* A list of Storms without the identity of its objects and without the
\* wind radii and the radius of maximum wind of its observations.
WithoutStructure(list) ==
  [k \in DOMAIN list |->
     [list[k] EXCEPT
        !.ref = 0,
        !.track = [n \in DOMAIN @ |-> [@[n] EXCEPT !.ref = 0, !.radii = Absent,
                                                   !.rmw = Absent]]]]

\* No observation of the list has wind radii or a radius of maximum wind.
NoStructure(list) ==
  \A o \in ObservationsOf(list) :
     list[o[1]].track[o[2]].radii = Absent /\ list[o[1]].track[o[2]].rmw = Absent

\* C27: on every archive text the two revisions of parseStandardHurdat
\* return the same Storms in the same order, with the same id, name, year
\* and count and, observation by observation, the same date, time,
\* timestamp, record flag, status, coordinates, wind and pressure; they
\* differ only in the wind radii and the radius of maximum wind, which the
\* older revision never has.
C27_RevisionsAgree ==
  Len(returned) = 2 =>
    /\ returned[1].text = returned[2].text
    /\ WithoutStructure(returned[1].result) = WithoutStructure(returned[2].result)
    /\ NoStructure(returned[1].result)

\* C27 happens: both revisions returned a Storm for a text, and the later
\* one's has wind radii.
C27_Witness ==
  /\ Len(returned) = 2
  /\ returned[1].result # <<>>
  /\ ~NoStructure(returned[2].result)
  /\ Len(returned[2].result[1].track) >= 2

(***************************************************************************)
(* C28: the sort of an archive track is stable                             *)
(***************************************************************************)

\* C28: in the result of the archive parser, observations of one Storm that
\* have the same timestamp stand in the track in the order of their rows in
\* the text: the sort only reorders observations of different timestamps.
C28_EqualTimestampsKeepOrder ==
  ArchiveDone =>
    \A s \in DOMAIN result : \A i, j \in DOMAIN result[s].track :
       (i < j /\ result[s].track[i].datetime = result[s].track[j].datetime)
         => result[s].track[i].ref < result[s].track[j].ref

\* C28 happens: a Storm of two rows with the same timestamp and different
\* winds, the first row's observation first.
C28_Witness ==
  /\ ArchiveDone /\ Len(result) = 1 /\ Len(result[1].track) = 2
  /\ SharesTimestamp(result[1].track)
  /\ result[1].track[1].maxWind # result[1].track[2].maxWind
  /\ result[1].track[1].maxWind = IntOrZero(At(Parts(lines[2]), 6))

(***************************************************************************)
(* C29                                                                     *)
(***************************************************************************)
\* The ids of the Storms of a list.
IdsOf(list) == {list[k].id : k \in DOMAIN list}

\* The ids of a list are pairwise distinct.
DistinctIds(list) == \A i, j \in DOMAIN list : i # j => list[i].id # list[j].id

\* A batch imported after the k-th one holds a Storm of this id.
ImportedLater(k, id) == \E m \in (k + 1)..Len(imported) : id \in IdsOf(imported[m])

\* The Storms of the k-th batch and of the later ones that no later batch
\* replaces, in the order they were imported.
RECURSIVE LatestFrom(_)
LatestFrom(k) ==
  IF k > Len(imported) THEN <<>>
  ELSE SelectSeq(imported[k], LAMBDA s : ~ImportedLater(k, s.id)) \o LatestFrom(k + 1)

MayPrecede(a, b) ==
  (~IsNaN(a.year) /\ ~IsNaN(b.year))
    => \/ a.year[1] > b.year[1]
       \/ a.year = b.year /\ localeCompare(a.id, b.id) >= 0

\* The archive Storms whose id no live Storm has.
OtherArchive == {s \in Range(archiveStorms) : s.id \notin IdsOf(liveStorms)}

\* C30: after the default load the combined list holds no archive Storm
\* whose id occurs among the live Storms, holds every live Storm and every
\* other archive Storm, and is ordered by year descending, then id
\* descending.
C30_LivePreferredAndOrdered ==
  appStep = "combined"
    => /\ Range(userStorms) = Range(liveStorms) \cup OtherArchive
       /\ Len(userStorms) = Len(liveStorms) + Cardinality(OtherArchive)
       /\ \A i, j \in DOMAIN userStorms : i < j => MayPrecede(userStorms[i], userStorms[j])

====
